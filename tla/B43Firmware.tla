------------------------------ MODULE B43Firmware ------------------------------
(***************************************************************************)
(* The firmware loader (ic/b43bsd_fw.c): four images read from files and    *)
(* kept in the softc, the microcode that is started from one of them, and   *)
(* the three revisions tried for the two initial value images.  The fourth  *)
(* image, the PCM samples, is optional and nothing depends on it: left out. *)
(*                                                                         *)
(* A file is absent (or too short), invalid (its header or its contents do  *)
(* not check) or good.  A cached image is none, invalid or good, or freed   *)
(* while the softc still points to it.                                      *)
(***************************************************************************)
EXTENDS Integers

CONSTANT
  PhyRev   \* sc_radio.phy_rev

ASSUME FirmwareAssumption == PhyRev \in Nat

Revisions == {PhyRev, 16, 0}

Files == {<<"ucode", 0>>} \cup ({"iv", "bs"} \X Revisions)

FileKinds == {"absent", "invalid", "good"}

Disks == [Files -> FileKinds]

Images == {"none", "invalid", "good", "freed"}

(* sc_fw: the images, whether the microcode has been started and, for a     *)
(* reader, whether an invalid microcode was ever read.                      *)
Firmwares ==
  [ucode : Images, iv : Images, bs : Images, running : BOOLEAN, rejected : BOOLEAN]

NoFirmware ==
  [ucode |-> "none", iv |-> "none", bs |-> "none", running |-> FALSE, rejected |-> FALSE]

-----------------------------------------------------------------------------
(* Fault: the cache is not looked at.                                       *)
LoadFromDisk(image, file) == IF file = "absent" THEN "none" ELSE file

(* b43bsd_load_fw_file: the cached image, or the file if it can be read.    *)
Load(image, file) ==
  IF image # "none" THEN image
  ELSE IF file = "absent" THEN "none" ELSE file

(* b43bsd_upload_microcode: the result is the softc and how it ended.  An   *)
(* invalid image is freed and stays in the cache; what is made of it after  *)
(* that is anything.                                                        *)
UploadMicrocode(fw, disk, starts) ==
  LET image == Load(fw.ucode, disk[<<"ucode", 0>>])
  IN CASE image = "none"    -> [fw |-> fw, ok |-> FALSE]
       [] image = "invalid" ->
            [fw |-> [fw EXCEPT !.ucode = "freed", !.rejected = TRUE], ok |-> FALSE]
       [] OTHER ->
            [fw |-> [fw EXCEPT !.ucode = image, !.running = @ \/ starts], ok |-> starts]

(* The use of a cached image after it was freed.                            *)
UsesFreed(fw) == fw.ucode = "freed"

(* One revision in b43bsd_upload_initvals: the base image, then the band    *)
(* image.  b43bsd_upload_initvals_file leaves an invalid image cached.      *)
TryRevision(fw, disk, rev) ==
  LET iv == Load(fw.iv, disk[<<"iv", rev>>])
      bs == IF iv = "good" THEN Load(fw.bs, disk[<<"bs", rev>>]) ELSE fw.bs
  IN [fw |-> [fw EXCEPT !.iv = iv, !.bs = bs], ok |-> iv = "good" /\ bs = "good"]

(* b43bsd_upload_initvals: each revision starts from what the last one left. *)
UploadInitvals(fw, disk) ==
  LET first  == TryRevision(fw, disk, PhyRev)
      second == TryRevision(first.fw, disk, 16)
  IN CASE first.ok  -> first
       [] ~first.ok /\ second.ok -> second
       [] OTHER     -> TryRevision(second.fw, disk, 0)

(* b43bsd_fw_init: microcode, then initial values.                          *)
FwInit(fw, disk, starts) ==
  LET ucode == UploadMicrocode(fw, disk, starts)
  IN IF ucode.ok THEN UploadInitvals(ucode.fw, disk) ELSE ucode

(* What it may leave, whatever the files are.                               *)
FwAfterInit ==
  [fw \in Firmwares |-> {FwInit(fw, disk, starts).fw : disk \in Disks, starts \in BOOLEAN}]

(* Fault: the band image is not freed.                                      *)
FwFreeKeepsBand(fw) == [NoFirmware EXCEPT !.bs = fw.bs, !.running = fw.running,
                                          !.rejected = fw.rejected]

(* b43bsd_fw_free.  sc_fw.running is left as it is.                         *)
FwFree(fw) == [NoFirmware EXCEPT !.running = fw.running, !.rejected = fw.rejected]

Cached(fw) == {i \in {"ucode", "iv", "bs"} : fw[i] # "none"}

AllGood(fw) == fw.ucode = "good" /\ fw.iv = "good" /\ fw.bs = "good"

=============================================================================
