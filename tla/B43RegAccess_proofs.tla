-------------------------- MODULE B43RegAccess_proofs --------------------------
(***************************************************************************)
(* Theorems about B43RegAccess for every storm threshold, every number of  *)
(* polls before a time-out and every number of commands.                   *)
(*                                                                         *)
(* The inductive invariant is IInv: the types, what the window and the mask *)
(* are at each step of an access, and where the last command is.  The three *)
(* properties speak of the ends of an access and of the polls; what each   *)
(* step of an access relies on, and what the firmware may still be doing   *)
(* when a command begins, has to be said to carry them from step to step.  *)
(***************************************************************************)
EXTENDS B43RegAccess, TLAPS

MaskedSteps == {"switch", "access", "restore", "unmask"}

(* The types of what an access and the interrupt handler use, and of what  *)
(* a command uses.                                                         *)
AccessTypes ==
  /\ shared \in BOOLEAN /\ irq \in BOOLEAN /\ unmasked \in BOOLEAN /\ storm \in BOOLEAN
  /\ savedMask \in BOOLEAN /\ phantom \in BOOLEAN
  /\ intrCount \in 0 .. StormThresh + 1
  /\ window \in {"MAC", "PHY"} /\ savedWindow \in {"MAC", "PHY"}
  /\ pc \in {"idle"} \cup AccessSteps \cup CmdSteps

CmdTypes ==
  /\ split \in BOOLEAN /\ timedOut \in BOOLEAN
  /\ shm \in [Cells -> 0 .. MaxCmds + 1]
  /\ shmAddr \in Cells
  /\ op \in 1 .. 5
  /\ polls \in 0 .. Polls
  /\ cmd \in 0 .. MaxCmds /\ fwJob \in 0 .. MaxCmds
  /\ finished \subseteq Cmds

(* BAR0 shows the PHY for two steps of an access and for no other, and the *)
(* window saved before them is the MAC's.                                  *)
WindowInv ==
  /\ window = "PHY" <=> pc \in {"access", "restore"}
  /\ window = "PHY" => savedWindow = "MAC"

(* The core is masked from MaskOff to Unmask, and otherwise only by a storm; *)
(* the mask saved for the access is as good as the one found.              *)
MaskInv ==
  /\ pc \in MaskedSteps => ~unmasked
  /\ pc \notin MaskedSteps => unmasked \/ storm
  /\ pc \in MaskedSteps \cup {"mask"} => savedMask \/ storm

(* Neither the firmware nor shared memory knows a command not yet sent.    *)
Sent ==
  /\ shm["CMD"] <= cmd
  /\ fwJob <= cmd
  /\ finished \subseteq 1 .. cmd

(* The polls of a command under way have not run out.                      *)
PollsLeft == pc \in CmdSteps => polls < Polls /\ cmd > 0

(* The data register shows the cell whose address was written.             *)
Addressed ==
  pc = "data" /\ ~split => shmAddr = IF Polling THEN "STAT" ELSE FwWrites[op]

(* No command waits for the firmware or is in its hands.                   *)
FwQuiet == shm["CMD"] = 0 /\ fwJob = 0

(* The last command is in shared memory, or with the firmware, or finished, *)
(* and the status tells which.                                             *)
CmdPlaced ==
  \/ shm["CMD"] = cmd /\ fwJob = 0 /\ cmd \notin finished /\ shm["STAT"] = 0
  \/ shm["CMD"] = 0 /\ fwJob = cmd /\ cmd \notin finished /\ shm["STAT"] = 0
  \/ shm["CMD"] = 0 /\ fwJob = 0 /\ cmd \in finished /\ shm["STAT"] # 0

(* As long as no command timed out and no address was moved, the firmware  *)
(* is quiet until the command is written, and the status was cleared first. *)
CmdInv ==
  ~split /\ ~timedOut =>
    /\ pc \notin CmdSteps => FwQuiet
    /\ pc \in CmdSteps /\ ~Polling =>
         FwQuiet /\ cmd \notin finished /\ (op = 4 => shm["STAT"] = 0)
    /\ pc \in CmdSteps /\ Polling => CmdPlaced

AccessInv == AccessTypes /\ WindowInv /\ MaskInv /\ PhantomOnlyIfShared

CommandInv == CmdTypes /\ Sent /\ PollsLeft /\ Addressed /\ CmdInv

IInv == AccessInv /\ CommandInv

-----------------------------------------------------------------------------
(* TypeOK is the types of both.                                            *)
LEMMA Types == TypeOK <=> AccessTypes /\ CmdTypes
<1>1. {shared, irq, unmasked, storm, savedMask, phantom, split, timedOut} \subseteq BOOLEAN
      <=> /\ shared \in BOOLEAN /\ irq \in BOOLEAN /\ unmasked \in BOOLEAN
          /\ storm \in BOOLEAN /\ savedMask \in BOOLEAN /\ phantom \in BOOLEAN
          /\ split \in BOOLEAN /\ timedOut \in BOOLEAN
  OBVIOUS
<1>2. /\ {window, savedWindow} \subseteq {"MAC", "PHY"}
         <=> window \in {"MAC", "PHY"} /\ savedWindow \in {"MAC", "PHY"}
      /\ {cmd, fwJob} \subseteq 0 .. MaxCmds <=> cmd \in 0 .. MaxCmds /\ fwJob \in 0 .. MaxCmds
  OBVIOUS
<1> QED
  BY <1>1, <1>2 DEF TypeOK, AccessTypes, CmdTypes

(* The order of the writes: the command is the last.                       *)
LEMMA Writes ==
  /\ Len(FwWrites) = 4
  /\ \A k \in 1 .. 4 : FwWrites[k] \in Cells
  /\ FwWrites[1] = "ARG0" /\ FwWrites[2] = "ARG1" /\ FwWrites[3] = "STAT" /\ FwWrites[4] = "CMD"
  BY DEF FwWrites, Cells

(* The driver starts with the window on the MAC and the firmware quiet.    *)
LEMMA IInvInit == Init => IInv
<1> SUFFICES ASSUME Init PROVE IInv
  OBVIOUS
<1>1. AccessTypes
  <2>1. /\ shared \in BOOLEAN /\ irq \in BOOLEAN /\ unmasked \in BOOLEAN /\ storm \in BOOLEAN
        /\ savedMask \in BOOLEAN /\ phantom \in BOOLEAN
    BY Zenon DEF Init
  <2>2. /\ intrCount \in 0 .. StormThresh + 1
        /\ window \in {"MAC", "PHY"} /\ savedWindow \in {"MAC", "PHY"}
        /\ pc \in {"idle"} \cup AccessSteps \cup CmdSteps
    BY RegAccessAssumption DEF Init
  <2> QED
    BY <2>1, <2>2 DEF AccessTypes
<1>2. WindowInv /\ MaskInv /\ PhantomOnlyIfShared
  BY DEF Init, WindowInv, MaskInv, PhantomOnlyIfShared, MaskedSteps
<1>3. CmdTypes
  <2>1. split \in BOOLEAN /\ timedOut \in BOOLEAN
    BY Zenon DEF Init
  <2>2. shm \in [Cells -> 0 .. MaxCmds + 1] /\ shmAddr \in Cells
    BY RegAccessAssumption DEF Init, Cells
  <2> QED
    BY <2>1, <2>2, RegAccessAssumption DEF Init, CmdTypes
<1>4. Sent /\ PollsLeft /\ Addressed /\ CmdInv
  BY DEF Init, Sent, PollsLeft, Addressed, CmdInv, FwQuiet, CmdSteps, Cells
<1> QED
  BY <1>1, <1>2, <1>3, <1>4 DEF IInv, AccessInv, CommandInv

-----------------------------------------------------------------------------
(* The window and the mask.                                                *)

(* No step leaves the window on the PHY outside an access, the core         *)
(* unmasked while it is, or saves a mask that is worse than the one found.  *)
LEMMA AccessNext == AccessInv /\ [Next]_vars => AccessInv'
<1> SUFFICES ASSUME AccessInv, [Next]_vars PROVE AccessInv'
  OBVIOUS
<1> USE RegAccessAssumption
    DEF AccessInv, AccessTypes, WindowInv, MaskInv, PhantomOnlyIfShared, MaskedSteps,
        AccessSteps, CmdSteps, Goes, irqVars, phyVars, SetMask
<1>1. CASE BeginAccess
  BY <1>1 DEF BeginAccess
<1>2. CASE SaveMask
  BY <1>2 DEF SaveMask
<1>3. CASE MaskOff
  BY <1>3 DEF MaskOff
<1>4. CASE WindowSwitch
  BY <1>4 DEF WindowSwitch
<1>5. CASE Access
  BY <1>5 DEF Access
<1>6. CASE WindowRestore
  BY <1>6 DEF WindowRestore
<1>7. CASE Unmask
  BY <1>7 DEF Unmask
<1>8. CASE FwCmd
  BY <1>8 DEF FwCmd
<1>9. CASE ShmAddress
  BY <1>9 DEF ShmAddress
<1>10. CASE ShmWrite
  BY <1>10 DEF ShmWrite
<1>11. CASE CmdDone
  BY <1>11 DEF CmdDone
<1>12. CASE CmdPolls
  BY <1>12 DEF CmdPolls
<1>13. CASE FwTakes
  BY <1>13 DEF FwTakes
<1>14. CASE FwAnswers
  BY <1>14 DEF FwAnswers
<1>15. CASE Raise
  BY <1>15 DEF Raise
<1>16. CASE Intr
  <2>1. AccessTypes'
    <3>1. phantom' \in BOOLEAN
      BY <1>16, Zenon DEF Intr
    <3>2. irq' \in BOOLEAN /\ unmasked' \in BOOLEAN /\ storm' \in BOOLEAN
      BY <1>16 DEF Intr, Served
    <3>3. intrCount' \in 0 .. StormThresh + 1
      BY <1>16 DEF Intr
    <3> QED
      BY <1>16, <3>1, <3>2, <3>3 DEF Intr
  <2>2. WindowInv'
    BY <1>16 DEF Intr
  <2>3. MaskInv'
    BY <1>16 DEF Intr, Served
  <2>4. PhantomOnlyIfShared'
    BY <1>16 DEF Intr, Delivered
  <2> QED
    BY <2>1, <2>2, <2>3, <2>4
<1>17. CASE UNCHANGED vars
  BY <1>17 DEF vars
<1> QED
  BY <1>1, <1>2, <1>3, <1>4, <1>5, <1>6, <1>7, <1>8, <1>9, <1>10, <1>11, <1>12,
     <1>13, <1>14, <1>15, <1>16, <1>17 DEF Next

-----------------------------------------------------------------------------
(* The command.                                                            *)

(* An answer is never lost, and never another command's, from the status   *)
(* being cleared to its being read.                                        *)
LEMMA CommandNext == CommandInv /\ [Next]_vars => CommandInv'
<1> SUFFICES ASSUME CommandInv, [Next]_vars PROVE CommandInv'
  OBVIOUS
<1> USE RegAccessAssumption, Writes
    DEF CommandInv, CmdTypes, Sent, PollsLeft, Addressed, CmdInv, CmdPlaced, FwQuiet,
        AccessSteps, CmdSteps, Cells, Cmds, Goes, cmdVars, fwVars, Polling
<1>1. CASE BeginAccess
  BY <1>1 DEF BeginAccess
<1>2. CASE SaveMask
  BY <1>2 DEF SaveMask
<1>3. CASE MaskOff
  BY <1>3 DEF MaskOff
<1>4. CASE WindowSwitch
  BY <1>4 DEF WindowSwitch
<1>5. CASE Access
  BY <1>5 DEF Access
<1>6. CASE WindowRestore
  BY <1>6 DEF WindowRestore
<1>7. CASE Unmask
  BY <1>7 DEF Unmask
<1>8. CASE FwCmd
  BY <1>8 DEF FwCmd
<1>9. CASE ShmAddress
  BY <1>9 DEF ShmAddress
<1>10. CASE ShmWrite
  BY <1>10 DEF ShmWrite, Written
<1>11. CASE CmdDone
  BY <1>11 DEF CmdDone
<1>12. CASE CmdPolls
  <2>1. CmdTypes'
    <3>1. timedOut' \in BOOLEAN
      BY <1>12, Zenon DEF CmdPolls
    <3> QED
      BY <1>12, <3>1 DEF CmdPolls
  <2>2. Sent' /\ PollsLeft'
    BY <1>12 DEF CmdPolls
  <2>3. Addressed' /\ CmdInv'
    <3>1. CASE polls' < Polls
      BY <1>12, <3>1 DEF CmdPolls
    <3>2. CASE polls' = Polls
      BY <1>12, <3>2 DEF CmdPolls
    <3>3. polls' < Polls \/ polls' = Polls
      BY <1>12 DEF CmdPolls
    <3> QED
      BY <3>1, <3>2, <3>3
  <2> QED
    BY <2>1, <2>2, <2>3
<1>13. CASE FwTakes
  BY <1>13 DEF FwTakes
<1>14. CASE FwAnswers
  BY <1>14 DEF FwAnswers
<1>15. CASE Raise
  BY <1>15 DEF Raise
<1>16. CASE Intr
  <2>1. CmdTypes'
    <3>1. split' \in BOOLEAN
      BY <1>16, Zenon DEF Intr, Served
    <3>2. shm' \in [Cells -> 0 .. MaxCmds + 1] /\ shmAddr' \in Cells
      <4>1. \/ UNCHANGED <<shm, shmAddr>>
            \/ shmAddr' = "PS" /\ \E v \in {0, 1} : shm' = [shm EXCEPT !["PS"] = v]
        BY <1>16, Zenon DEF Intr, Served
      <4>2. 0 \in 0 .. MaxCmds + 1 /\ 1 \in 0 .. MaxCmds + 1
        OBVIOUS
      <4> QED
        BY <4>1, <4>2
    <3> QED
      BY <1>16, <3>1, <3>2 DEF Intr
  <2>2. Sent' /\ PollsLeft'
    BY <1>16 DEF Intr, Served
  <2>3. Addressed' /\ CmdInv'
    BY <1>16 DEF Intr, Served
  <2> QED
    BY <2>1, <2>2, <2>3
<1>17. CASE UNCHANGED vars
  BY <1>17 DEF vars
<1> QED
  BY <1>1, <1>2, <1>3, <1>4, <1>5, <1>6, <1>7, <1>8, <1>9, <1>10, <1>11, <1>12,
     <1>13, <1>14, <1>15, <1>16, <1>17 DEF Next

-----------------------------------------------------------------------------
(* The theorems.                                                           *)

(* The invariant holds in every reachable state.                           *)
THEOREM Invariant == Spec => []IInv
  BY IInvInit, AccessNext, CommandNext, PTL DEF Spec, IInv

(* Every variable has its type, the counts of polls and of commands among  *)
(* them: TypeOK.                                                           *)
THEOREM TypeCorrect == Spec => []TypeOK
<1>1. IInv => TypeOK
  BY Types DEF IInv, AccessInv, CommandInv
<1> QED
  BY <1>1, Invariant, PTL

(* The handler reads and acknowledges the wrong core only on a shared line: *)
(* the mask nphy_read and nphy_write take is enough on a line of its own,   *)
(* whenever an interrupt comes: PhantomOnlyIfShared.                       *)
THEOREM PhantomSafe == Spec => []PhantomOnlyIfShared
  BY Invariant, PTL DEF IInv, AccessInv

(* Every access puts back the window and, unless a storm has turned the     *)
(* interrupts off, the mask, with any number of interrupts in between:      *)
(* AccessRestores.                                                         *)
THEOREM AccessSafe == Spec => []AccessRestores
<1>1. IInv => AccessRestores
  BY DEF IInv, AccessInv, AccessTypes, WindowInv, MaskInv, MaskedSteps, AccessSteps,
         CmdSteps, AccessRestores
<1> QED
  BY <1>1, Invariant, PTL

(* b43bsd_fw_cmd's poll is true of the command it sent, however slow the    *)
(* firmware is, until a time-out or a moved address register makes it       *)
(* ambiguous: StatusTellsTruth.                                            *)
THEOREM StatusTrue == Spec => []StatusTellsTruth
<1>1. IInv => StatusTellsTruth
  BY DEF IInv, CommandInv, CmdInv, CmdPlaced, StatusTellsTruth
<1> QED
  BY <1>1, Invariant, PTL

=============================================================================
