SPECIFICATION Spec
CONSTANTS
  d1 = d1
  d2 = d2
  Disks = {d1, d2}
  DiskOrder <- MCOrder
  Driver <- MixedDrivers
  ESP_SIZE_SECTORS = 6
  GPT_FIRST_USABLE_LBA = 4
  GPT_RESERVED_LBAS = 3
  Overhead = 9
  SectorSize = 4
  TotalSectors = {5, 15}
  OldGuids = {4}
  MaxLate = 1
  MaxBoots = 2
INVARIANTS
  FormatReadsBack
  NoTornTable
  AhciLosesMbrOnly
