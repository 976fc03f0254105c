SPECIFICATION DownloadsSpec
CONSTANTS
  old = old
  new = new
  forged = forged
  broken = broken
  Process = {"p", "q"}
  Bundle = {old, new, forged, broken}
  Version = {"v1"}
  File <- MCFile
  KeyEpoch <- MCKeyEpoch
  VersionOf <- MCVersionOf
  Malformation <- MCMalformation
  Authentic = {old, new, broken}
  MinRequired = 1
  Anchors = {1, 2, 3}
  Inode = {f1, f2, f3}
  None = None
  Torn = Torn
  Body = {old, new, forged}
  Signed = {old, new}
  Chunks = 2
  Leftover <- MCLeftover
  Lost = Lost
  NoIso = NoIso
  Image = {new, forged}
  Official = {new}
  NoImage = NoImage
  TornImage = TornImage
SYMMETRY InodeSymmetry
PROPERTY
  ResumeFallsBack
