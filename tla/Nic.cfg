\* Four descriptors wrap around within a few packets, of which two are told apart.
CONSTANTS
  E1000_NUM_RX_DESC = 4
  Packets = {p, q}
  NoPacket = none
  MaxSpare = 3
SPECIFICATION NicSpec

  
PROPERTIES
  DeliversInOrder
