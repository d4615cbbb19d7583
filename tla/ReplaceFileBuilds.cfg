SPECIFICATION FairSpec
CONSTANTS
  Platforms = {"posix", "windows"}
  Docs <- MCDocs
  Bytes <- MCBytes
  Modes = {m600, m644}
  Private = m600
  CanonMode = m644
  Ticks = {1}
  MaxAttempts = 2
  MaxSeq = 2
  Inodes = {i1, i2, i3}
  NoInode = NoInode
  Readers = {}
  Absent = Absent
  NoDoc = NoDoc
PROPERTIES Terminates ImplementsAtomicFile
