SPECIFICATION TransferSpec
CONSTANTS
  Files <- MCFiles
  Lengths = {0, 1, 9}
INVARIANTS ConfigsAligned TreeIsFile NoDeviceLost ActiveIsDevices DeviceTransferInv LengthTruthful
CHECK_DEADLOCK FALSE
