SPECIFICATION WalkSpec
CONSTANTS
  Code = {c1, c2}
  Bottom = Bottom
  max_frames = 2
INVARIANT BeginsAtBottom
