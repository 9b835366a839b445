CONSTANTS
  img = img big = big vid = vid aud = aud u1 = u1 u2 = u2 v1 = v1 None = None
  Hashes = {img, big, vid, aud}
  Size <- SizeOf
  AV = {vid, aud}
  BadAudio = {aud}
  CacheMax = 5
  Workers = 1
  MediaQueueSize = 1
  Uploaders = {u1, u2}
  Viewers = {v1}
  MaxUploads = 3
  MaxRestarts = 1
SPECIFICATION Spec
INVARIANTS TypeOK CacheAccounted ServedWhole BlockHolds MediaAgree
