SPECIFICATION Spec
CONSTANTS
  Platforms = {"posix"}
  Docs <- MCDocs
  Bytes <- MCBytes
  Modes = {m600, m644}
  Private = m600
  CanonMode = m644
  Ticks = {1}
  MaxAttempts = 2
  MaxSeq = 3
  Inodes = {i1, i2, i3, i4}
  NoInode = NoInode
  Readers = {r1}
  Absent = Absent
  NoDoc = NoDoc
SYMMETRY Symmetry
INVARIANTS TypeOK WholeDocuments PartialIsPrivate NoLeak
PROPERTIES ImplementsAtomicFile
