SPECIFICATION FairSpec
CONSTANTS
  public = public
  private = private
  base = base
  top = top
  Threads = {w1, w2}
  Images <- MCImages
  Private <- MCPrivate
  Blobs <- MCBlobs
  Manifest <- MCManifest
  Damaged <- MCDamaged
  Events = {"error", "redirect", "expire", "truncate"}
INVARIANTS
  LayersVerified
PROPERTIES
  StaysSound
  PullEnds
CHECK_DEADLOCK FALSE
