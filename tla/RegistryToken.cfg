SPECIFICATION FairSpec
CONSTANTS
  public = public
  private = private
  base = base
  top = top
  Threads = {w1}
  Images <- MCImages
  Private <- MCPrivate
  Blobs <- MCBlobs
  Manifest <- MCManifest
  Damaged <- MCDamaged
  Events = {"expire"}
PROPERTY PullOutlivesToken
CHECK_DEADLOCK FALSE
