--------------------------- MODULE LifecycleProofs ---------------------------
(***************************************************************************)
(* Proofs about Lifecycle, for any contents of resolv.conf, any line of    *)
(* the program's own and any number of starts, crashes and edits.          *)
(***************************************************************************)
EXTENDS Lifecycle, Integers, SequenceTheorems, TLAPS

Stage == {"off", "tun", "dns_read", "dns_truncate", "dns_seek", "dns_write",
          "ip_read", "ip_write", "poll", "pending", "drop_ip", "drop_dns"}

TypeOK ==
  /\ resolv \in Seq(Nat)
  /\ forward \in {0, 1}
  /\ main \in [pc : Stage, gateway : BOOLEAN, unwinding : BOOLEAN]
  /\ dns = None \/ \E s \in Seq(Nat) : dns = Some(s)
  /\ ip = None \/ \E f \in {0, 1} : ip = Some(f)
  /\ user \in [resolv : Seq(Nat), forward : {0, 1}]
  /\ left \in BOOLEAN

(* There is a DNSSetup or an IpForward only between its set-up and its     *)
(* drop, whatever earlier runs left behind.                                *)
Locals ==
  /\ main.pc \in {"off", "tun", "dns_read"} => dns = None
  /\ main.pc \in {"off", "tun", "dns_read", "dns_truncate", "dns_seek", "dns_write",
                  "ip_read", "drop_dns"} => ip = None
  /\ main.pc \in {"dns_truncate", "dns_seek", "dns_write", "ip_read", "ip_write",
                  "poll", "pending"} => dns # None
  /\ main.pc = "ip_write" => ip # None

(* What the file holds after each step of the set-up. *)
FileStage ==
  /\ main.pc \in {"dns_seek", "dns_write"} => resolv = <<>>
  /\ main.pc \in {"ip_read", "ip_write", "poll", "pending"} => resolv = Own

(* s is what the user wants, if that is no shorter than the program's line. *)
Settled(s) == Len(user.resolv) >= Len(Own) => s = user.resolv

(* The file is settled until DNSSetup has saved it, and what is saved then *)
(* is settled; when it comes to the drop, the file is the program's own.   *)
FileSafe ==
  /\ dns = None => Settled(resolv)
  /\ dns # None => Settled(dns[1])
  /\ main.pc = "dns_truncate" => Settled(resolv)
  /\ main.pc \in {"drop_ip", "drop_dns"} /\ dns # None => resolv = Own

ForwardSafe ==
  /\ ip = None => forward = user.forward
  /\ ip # None => ip[1] = user.forward
  /\ main.pc = "ip_write" => forward = user.forward

Restorable == ~left => FileSafe /\ ForwardSafe

IInv == TypeOK /\ Locals /\ FileStage /\ OwnSettings /\ Restorable

-----------------------------------------------------------------------------
(* What is saved can be told from nothing, an empty file included. *)
LEMMA SomeIsNotNone == \A x : Some(x) # None /\ Some(x)[1] = x
BY DEF Some, None

(* Writing at the start of a file replaces all of it when what is written  *)
(* is no shorter.                                                          *)
LEMMA OverwriteSeq ==
  ASSUME NEW file \in Seq(Nat), NEW bytes \in Seq(Nat)
  PROVE  /\ Overwrite(file, bytes) \in Seq(Nat)
         /\ Len(bytes) >= Len(file) => Overwrite(file, bytes) = bytes
<1> DEFINE rest == SubSeq(file, Len(bytes) + 1, Len(file))
<1>1. rest \in Seq(Nat) /\ Len(rest) = IF Len(bytes) < Len(file) THEN Len(file) - Len(bytes) ELSE 0
  BY SubSeqProperties, LenProperties
<1>2. Len(bytes) >= Len(file) => rest = <<>>
  BY <1>1, EmptySeq, LenProperties
<1> HIDE DEF rest
<1>3. Overwrite(file, bytes) = bytes \o rest
  BY DEF Overwrite, rest
<1>4. bytes \o rest \in Seq(Nat)
  BY <1>1, ConcatProperties
<1>5. rest = <<>> => bytes \o rest = bytes
  BY ConcatEmptySeq
<1> QED BY <1>2, <1>3, <1>4, <1>5

(* Writing settled contents over the program's own line settles the file,  *)
(* although the file is not truncated.                                     *)
LEMMA RestoreSettles ==
  ASSUME TypeOK, NEW s \in Seq(Nat), Settled(s)
  PROVE  Settled(Overwrite(Own, s))
<1> SUFFICES ASSUME Len(user.resolv) >= Len(Own) PROVE Overwrite(Own, s) = user.resolv
  BY DEF Settled
<1>1. s = user.resolv /\ Own \in Seq(Nat)
  BY LifecycleAssumption DEF Settled
<1> QED BY <1>1, OverwriteSeq

(* An empty file takes exactly what is written. *)
LEMMA OverwriteEmpty == Overwrite(<<>>, Own) = Own
<1>1. Own \in Seq(Nat) /\ Len(Own) \in Nat
  BY LifecycleAssumption
<1>2. PICK e \in Seq(Nat) : e = <<>> /\ Len(e) = 0
  BY EmptySeq
<1>3. Len(Own) >= Len(e)
  BY <1>1, <1>2
<1>4. Overwrite(e, Own) = Own
  BY <1>1, <1>3, OverwriteSeq
<1> QED BY <1>2, <1>4

-----------------------------------------------------------------------------
(* The type of the state, action by action. *)
LEMMA TypeStep == ASSUME TypeOK, [Next]_vars PROVE TypeOK'
<1> USE SomeIsNotNone DEF Stage
<1>1. Start \/ TunSetup \/ PollNext \/ TimedOut \/ Woken \/ LoopFails \/ Signal => TypeOK'
  <2>1. Start => TypeOK'
    BY DEF Start, TypeOK
  <2>2. TunSetup \/ Woken => TypeOK'
    BY ZenonT(60) DEF TunSetup, Woken, Goto, Unwind, TypeOK
  <2>2a. PollNext => TypeOK'
    BY ZenonT(60) DEF PollNext, Goto, TypeOK
  <2>2b. TimedOut => TypeOK'
    BY ZenonT(60) DEF TimedOut, Goto, TypeOK
  <2>3. LoopFails \/ Signal => TypeOK'
    BY ZenonT(60) DEF LoopFails, Signal, Unwind, TypeOK
  <2> QED BY <2>1, <2>2, <2>2a, <2>2b, <2>3
<1>2. DnsRead => TypeOK'
  BY ZenonT(60) DEF DnsRead, Goto, Unwind, TypeOK
<1>3. DnsTruncate => TypeOK'
  <2>1. DnsTruncate => resolv' \in Seq(Nat)
    BY ZenonT(60), EmptySeq DEF DnsTruncate, TypeOK
  <2> QED BY ZenonT(60), <2>1 DEF DnsTruncate, Goto, Unwind, TypeOK
<1>3a. DnsSeek => TypeOK'
  BY ZenonT(60) DEF DnsSeek, Goto, Unwind, TypeOK
<1>4. ASSUME DnsWrite PROVE TypeOK'
  <2>1. resolv' \in Seq(Nat)
    <3>1. Overwrite(resolv, Own) \in Seq(Nat)
      BY OverwriteSeq, LifecycleAssumption DEF TypeOK
    <3>2. \A n \in 0..(Len(Own) - 1) : SubSeq(Own, 1, n) \in Seq(Nat)
      BY LifecycleAssumption, SubSeqProperties, LenProperties
    <3> QED BY <1>4, <3>1, <3>2 DEF DnsWrite
  <2>2. main' \in [pc : Stage, gateway : BOOLEAN, unwinding : BOOLEAN]
    BY <1>4 DEF DnsWrite, Goto, Unwind, TypeOK
  <2> QED BY <1>4, <2>1, <2>2 DEF DnsWrite, TypeOK
<1>5. IpRead => TypeOK'
  BY ZenonT(60) DEF IpRead, Goto, Unwind, TypeOK
<1>6. IpWrite => TypeOK'
  BY ZenonT(60) DEF IpWrite, Goto, Unwind, TypeOK
<1>7. ASSUME DropIp PROVE TypeOK'
  <2>1. main' \in [pc : Stage, gateway : BOOLEAN, unwinding : BOOLEAN]
    BY ZenonT(60), <1>7 DEF DropIp, Goto, TypeOK
  <2>2. forward' \in {0, 1} /\ ip' = None
    BY <1>7 DEF DropIp, TypeOK
  <2> QED BY <1>7, <2>1, <2>2 DEF DropIp, TypeOK
<1>8. ASSUME DropDns PROVE TypeOK'
  <2>1. ASSUME dns # None PROVE resolv' \in Seq(Nat)
    <3>1. PICK s \in Seq(Nat) : dns = Some(s) /\ dns[1] = s
      BY <2>1 DEF TypeOK
    <3>2. Overwrite(resolv, s) \in Seq(Nat)
      BY OverwriteSeq DEF TypeOK
    <3>3. ASSUME NEW n \in 0..Len(s) PROVE Overwrite(resolv, SubSeq(s, 1, n)) \in Seq(Nat)
      <4>1. SubSeq(s, 1, n) \in Seq(Nat)
        BY SubSeqProperties, LenProperties
      <4> QED BY <4>1, OverwriteSeq DEF TypeOK
    <3> QED BY <1>8, <2>1, <3>1, <3>2, <3>3 DEF DropDns
  <2>2. dns = None => resolv' \in Seq(Nat)
    BY <1>8 DEF DropDns, TypeOK
  <2> QED BY <1>8, <2>1, <2>2 DEF DropDns, Goto, TypeOK
<1>9. Crash => TypeOK'
  BY DEF Crash, Goto, TypeOK
<1>10. Edit => TypeOK'
  <2>1. Edit => resolv' \in Seq(Nat) /\ forward' \in {0, 1}
    BY LifecycleAssumption DEF Edit
  <2>2. Edit => user' \in [resolv : Seq(Nat), forward : {0, 1}]
    BY <2>1 DEF Edit
  <2> QED BY <2>1, <2>2 DEF Edit, TypeOK
<1>11. UNCHANGED vars => TypeOK'
  BY DEF TypeOK, vars
<1> QED BY <1>1, <1>2, <1>3, <1>3a, <1>4, <1>5, <1>6, <1>7, <1>8, <1>9, <1>10, <1>11
    DEF Next, Step

(* What holds at each stage, whether or not changes were left behind. *)
LEMMA StageStep ==
  ASSUME TypeOK, Locals, FileStage, OwnSettings, [Next]_vars
  PROVE  Locals' /\ FileStage' /\ OwnSettings'
<1> USE SomeIsNotNone DEF Locals, FileStage, OwnSettings, Handling
<1> DEFINE Goal == Locals' /\ FileStage' /\ OwnSettings'
<1>1. Start => Goal
  BY DEF Start, TypeOK
<1>2. TunSetup \/ PollNext \/ TimedOut \/ Woken \/ LoopFails \/ Signal => Goal
  <2>1. TunSetup \/ LoopFails \/ Signal => Goal
    BY DEF TunSetup, LoopFails, Signal, Goto, Unwind, TypeOK
  <2>2. PollNext \/ TimedOut \/ Woken => Goal
    BY DEF PollNext, TimedOut, Woken, Goto, TypeOK
  <2> QED BY <2>1, <2>2
<1>3. DnsRead => Goal
  BY DEF DnsRead, Goto, Unwind, TypeOK
<1>4. DnsTruncate => Goal
  BY DEF DnsTruncate, Goto, Unwind, TypeOK
<1>4a. DnsSeek => Goal
  BY DEF DnsSeek, Goto, Unwind, TypeOK
<1>5. DnsWrite => Goal
  BY ZenonT(60), OverwriteEmpty DEF DnsWrite, Goto, Unwind, TypeOK
<1>6. IpRead => Goal
  BY DEF IpRead, Goto, Unwind, TypeOK
<1>7. IpWrite => Goal
  BY DEF IpWrite, Goto, Unwind, TypeOK
<1>8. ASSUME DropIp PROVE Goal
  <2>1. main'.pc \in {"off", "drop_dns"} /\ ip' = None
    BY <1>8 DEF DropIp, Goto, TypeOK
  <2>2. main'.pc = "off" => dns' = None
    BY <1>8 DEF DropIp, Goto, TypeOK
  <2> QED BY <2>1, <2>2
<1>9. DropDns => Goal
  BY DEF DropDns, Goto, TypeOK
<1>10. Crash => Goal
  BY DEF Crash, Goto, TypeOK
<1>11. Edit => Goal
  BY DEF Edit, Running, TypeOK
<1>12. UNCHANGED vars => Goal
  BY DEF vars
<1> QED BY <1>1, <1>2, <1>3, <1>4, <1>4a, <1>5, <1>6, <1>7, <1>8, <1>9, <1>10, <1>11, <1>12
    DEF Next, Step

(* No step loses what the user wants without left recording it. *)
LEMMA RestorableStep ==
  ASSUME TypeOK, Locals, FileStage, Restorable, [Next]_vars
  PROVE  Restorable'
<1> USE SomeIsNotNone DEF Locals, FileStage, Restorable, FileSafe, ForwardSafe
<1>0. ASSUME user' = user, NEW s PROVE Settled(s)' <=> Settled(s)
  BY <1>0 DEF Settled
<1>1. Start => Restorable'
  BY <1>0 DEF Start, Settled, TypeOK
<1>2. TunSetup \/ Signal => Restorable'
  BY DEF TunSetup, Signal, Goto, Unwind, Settled, TypeOK
<1>3. PollNext \/ TimedOut \/ Woken \/ LoopFails => Restorable'
  <2>1. PollNext \/ TimedOut \/ Woken \/ LoopFails => (FileSafe => FileSafe')
    BY DEF PollNext, TimedOut, Woken, LoopFails, Goto, Unwind, Settled, TypeOK
  <2>2. PollNext \/ TimedOut \/ Woken \/ LoopFails => (ForwardSafe => ForwardSafe')
    BY DEF PollNext, TimedOut, Woken, LoopFails, Goto, Unwind, TypeOK
  <2> QED BY <2>1, <2>2 DEF PollNext, TimedOut, Woken, LoopFails
<1>4. DnsRead => Restorable'
  BY DEF DnsRead, Goto, Unwind, Settled, TypeOK
<1>5. DnsTruncate => Restorable'
  BY DEF DnsTruncate, Goto, Unwind, Settled, TypeOK
<1>5a. DnsSeek => Restorable'
  BY DEF DnsSeek, Goto, Unwind, Settled, TypeOK
<1>6. DnsWrite => Restorable'
  BY DEF DnsWrite, Goto, Unwind, Settled, TypeOK
<1>7. IpRead => Restorable'
  <2>1. IpRead => (FileSafe => FileSafe')
    BY DEF IpRead, Goto, Unwind, Settled, TypeOK
  <2>2. IpRead => (ForwardSafe => ForwardSafe')
    BY DEF IpRead, Goto, Unwind, TypeOK
  <2> QED BY <2>1, <2>2 DEF IpRead
<1>8. IpWrite => Restorable'
  <2>1. IpWrite => (FileSafe => FileSafe')
    BY DEF IpWrite, Goto, Unwind, Settled, TypeOK
  <2>2. IpWrite => (ForwardSafe => ForwardSafe')
    BY DEF IpWrite, Goto, Unwind, TypeOK
  <2> QED BY <2>1, <2>2 DEF IpWrite
<1>9. DropIp => Restorable'
  BY DEF DropIp, Goto, Settled, TypeOK
<1>10. ASSUME DropDns PROVE Restorable'
  <2>1. CASE dns = None
    BY <1>10, <2>1 DEF DropDns, Goto, Settled, TypeOK
  <2>2. CASE dns # None
    <3>1. PICK s \in Seq(Nat) : dns = Some(s) /\ dns[1] = s
      BY <2>2 DEF TypeOK
    <3>2. ASSUME ~left' PROVE Settled(resolv')
      <4>1. ~left /\ Settled(s) /\ resolv = Own /\ resolv' = Overwrite(Own, s)
        BY <1>10, <2>2, <3>1, <3>2 DEF DropDns, TypeOK
      <4> QED BY <4>1, RestoreSettles
    <3>3. dns' = None /\ main'.pc = "off" /\ user' = user /\ (~left' => ~left)
          /\ ip' = ip /\ forward' = forward
      BY <1>10, <2>2 DEF DropDns, Goto, TypeOK
    <3> QED BY <3>2, <3>3 DEF Settled, TypeOK
  <2> QED BY <2>1, <2>2
<1>11. Crash => Restorable'
  BY DEF Crash, Goto, Settled, TypeOK
<1>12. Edit => Restorable'
  BY DEF Edit, Running, Settled, TypeOK
<1>13. UNCHANGED vars => Restorable'
  BY DEF vars, Settled
<1> QED BY <1>1, <1>2, <1>3, <1>4, <1>5, <1>5a, <1>6, <1>7, <1>8, <1>9, <1>10, <1>11, <1>12, <1>13
    DEF Next, Step

(* The invariant holds through any number of starts, panics, crashes and   *)
(* edits.                                                                  *)
THEOREM Inductive == Spec => []IInv
<1>1. Init => IInv
  <2> SUFFICES ASSUME Init PROVE IInv
    OBVIOUS
  <2>1. resolv \in Seq(Nat) /\ forward \in {0, 1}
    BY LifecycleAssumption DEF Init
  <2>2. user.resolv = resolv /\ user.forward = forward
        /\ user \in [resolv : Seq(Nat), forward : {0, 1}]
    BY <2>1 DEF Init
  <2>3. TypeOK
    BY <2>1, <2>2 DEF Init, TypeOK, Stage
  <2>4. Locals /\ FileStage /\ OwnSettings
    BY DEF Init, Locals, FileStage, OwnSettings, Handling
  <2>5. Restorable
    BY <2>2 DEF Init, Restorable, FileSafe, ForwardSafe, Settled
  <2> QED BY <2>3, <2>4, <2>5 DEF IInv
<1>2. IInv /\ [Next]_vars => IInv'
  BY TypeStep, StageStep, RestorableStep DEF IInv
<1> QED BY <1>1, <1>2, PTL DEF Spec

(* While main handles connections, resolv.conf is the program's own line   *)
(* and nothing else, and the gateway forwards.                             *)
THEOREM SettingsHold == Spec => []OwnSettings
BY Inductive, PTL DEF IInv

(* The drops of DNSSetup and IpForward put back forwarding, and the lines  *)
(* of resolv.conf if they are no shorter than the program's own.           *)
THEOREM SettingsPutBack == Spec => []PutBack
<1>1. IInv => PutBack
  BY DEF IInv, Locals, Restorable, FileSafe, ForwardSafe, Settled, PutBack, Running
<1> QED BY <1>1, Inductive, PTL
=============================================================================
