\* Two render threads and three handles for four objects of two sizes: two windows, a
\* context and a color buffer live at once in some states, handles are reused, and
\* windows are resized while they are current in another thread.
SPECIFICATION Spec
CONSTANTS
  Thread = {t1, t2}
  HandleCount = 4
  Sizes = {small, large}
  MaxCreates = 4
  MaxRefs = 2
CONSTRAINT Focus
SYMMETRY Symmetry
INVARIANTS Owned BuffersAccounted CurrentSurfacesBound
PROPERTIES HandlesStable DrainsOwn
CHECK_DEADLOCK FALSE
