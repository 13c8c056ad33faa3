---------------------------- MODULE MCFPGAUpdate ----------------------------
(* A sound file with every kind of field, one that was made for another    *)
(* FPGA, one that is no .bit file, and one with a broken packet.           *)
EXTENDS FPGAUpdate

Header(magic, device) ==
  Field(magic, 2, 0) \o Field("text", 4, 0) \o Field(device, 4, 0) \o Field("e", 5, 0)
Preamble == Field("pad", 3, 0) \o Field("sync", 4, 0)
Command == Field("type1", 8, 0)
Frames == Field("type2", 4, 3) \o Field("data", 12, 0)
End == Field("desync", 8, 0) \o Field("type1", 4, 0)

MCFiles == {
  Header("magic", "device") \o Preamble \o Command \o Frames \o End,
  Header("magic", "otherDevice") \o Preamble \o Command \o End,
  Header("noMagic", "device") \o Preamble,
  Header("magic", "device") \o Preamble \o Field("bad", 4, 0) \o End }

ASSUME RoomAssumption ==
  ImageFits /\ BuffersSuffice /\ SoundFilesWhole /\ PartitionErasable
=============================================================================
