SPECIFICATION Spec
CONSTANTS
  WordBits = 4
  ByteBits = 2
  Poly <- Poly4
  CHUNK = 2
  Stream <- ToyStream
  Plain <- ToyPlain
  Verdict <- ToyVerdict
  Sig <- ToySig
  TypeOf <- ToyTypes
  Sources <- Scans
  Widths = {1, 2}
  Format <- ToyFormat
  Uninitialised <- Fill
  Damages = {"byte", "cut"}
INVARIANTS
  RoundTrip
  DamageFound
  CrcIsDivision
  MemInfHonest
PROPERTIES
  Ends
