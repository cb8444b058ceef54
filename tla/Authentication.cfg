\* Three threads; messages of one and of two buffers.
CONSTANTS
  Threads = {t1, t2, t3}
  Messages <- MCMessages
  Nobody = Nobody
SPECIFICATION LiveSigningSpec
INVARIANT SignaturesAreOwn
PROPERTY SigningEnds
