\* One engine, two devices, the clock, soft interrupts and cross-processor
\* calls; an interrupt arrives while fewer than MaxDepth frames are stacked, which
\* is two interrupts inside one another, and the deferred ones that they uncover.
CONSTANTS
  disk = disk  tty = tty
  Irq = {disk, tty}
  Pri <- MCPri
  Levels = {1, 6, 8}
  Flags = {"EVT_STRSCHED"}
  MaxDepth = 5
SPECIFICATION Spec
INVARIANTS QueueExact NothingStranded SoftKept
