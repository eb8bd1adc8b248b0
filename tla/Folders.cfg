SPECIFICATION Spec
CONSTANTS
  Disk <- MCDisk
  Volumes <- MCVolumes
  NoFolder = 0
  Short = {"F", "G", "B"}
  NoName = ""
  Careless = {}
INVARIANTS FolderTypeOK Located OpensListed
