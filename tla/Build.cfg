SPECIFICATION Spec
CONSTANTS
  Tasks = {limine_binary, headers}
  LimineBinary = limine_binary
  DoneCap = 2
  Asm = {idt, boot}
  Main = main
  ImageFiles <- MCImageFiles
  MaxRuns = 2
INVARIANTS
  QemuRunsThisBuild
  LeftoversNeverBlock
PROPERTIES
  UnpackOnlyAfterAllOpened
  AsmAlwaysReturns
