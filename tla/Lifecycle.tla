----------------------------- MODULE Lifecycle -----------------------------
(***************************************************************************)
(* seeker from start to exit, as it changes the system's settings and puts *)
(* them back: main of seeker/src/main.rs, DNSSetup of                      *)
(* sysconfig/src/net/linux.rs and IpForward of sysconfig/src/net/mod.rs.   *)
(*                                                                         *)
(* /etc/resolv.conf is a sequence of bytes.  An `unwrap` that fails on the *)
(* main thread unwinds, and runs the drops of what is already set up; a    *)
(* panic of a task, or a signal that kills, runs none.                     *)
(***************************************************************************)
EXTENDS Naturals, Sequences

CONSTANTS
  Own,       \* "nameserver 127.0.0.1"
  Contents,  \* contents the user may give resolv.conf
  MaxStarts, \* bound on the starts of the program
  MaxEdits   \* bound on the edits of the user

ASSUME LifecycleAssumption ==
  /\ Own \in Seq(Nat) /\ Own # <<>> /\ \A s \in Contents : s \in Seq(Nat)
  /\ MaxStarts \in Nat /\ MaxEdits \in Nat

VARIABLES
  resolv,   \* /etc/resolv.conf
  forward,  \* sysctl net.ipv4.ip_forward
  main,     \* main: pc, gateway_mode, and whether it unwinds
  dns,      \* original of the DNSSetup there is, if any
  ip,       \* original_option of the IpForward there is, if any
  term,     \* the flag the signals set
  user,     \* what the user wants of resolv.conf and of ip_forward (history)
  left,     \* changes have been left behind since the user's last edit (history)
  starts, edits

vars == <<resolv, forward, main, dns, ip, term, user, left, starts, edits>>

None == <<>>
Some(x) == <<x>>

(* write_all at the start of a file. *)
Overwrite(file, bytes) == bytes \o SubSeq(file, Len(bytes) + 1, Len(file))

Init ==
  /\ resolv \in Contents /\ forward \in {0, 1}
  /\ main = [pc |-> "off", gateway |-> FALSE, unwinding |-> FALSE]
  /\ dns = None /\ ip = None /\ term = FALSE
  /\ user = [resolv |-> resolv, forward |-> forward] /\ left = FALSE
  /\ starts = 0 /\ edits = 0

Goto(pc) == main' = [main EXCEPT !.pc = pc]
Unwind == main' = [main EXCEPT !.pc = "drop_ip", !.unwinding = TRUE]

-----------------------------------------------------------------------------
(* main *)

Start ==
  /\ main.pc = "off" /\ starts < MaxStarts
  /\ \E gateway \in BOOLEAN : main' = [pc |-> "tun", gateway |-> gateway, unwinding |-> FALSE]
  /\ term' = FALSE /\ starts' = starts + 1
  /\ UNCHANGED <<resolv, forward, dns, ip, user, left, edits>>

(* Tun::setup; it panics if the device cannot be made. *)
TunSetup ==
  /\ main.pc = "tun"
  /\ Goto("dns_read") \/ Unwind
  /\ UNCHANGED <<resolv, forward, dns, ip, term, user, left, starts, edits>>

(* Fault: the file is not read. *)
DnsReadNothing ==
  /\ main.pc = "dns_read"
  /\ \/ Goto("dns_truncate") /\ dns' = Some(<<>>)
     \/ Unwind /\ UNCHANGED dns
  /\ UNCHANGED <<resolv, forward, ip, term, user, left, starts, edits>>

(* DNSSetup::new reads the file, empties it and writes its own line.  If   *)
(* that fails on the way there is no DNSSetup yet, and no drop.            *)
DnsRead ==
  /\ main.pc = "dns_read"
  /\ \/ Goto("dns_truncate") /\ dns' = Some(resolv)
     \/ Unwind /\ UNCHANGED dns
  /\ UNCHANGED <<resolv, forward, ip, term, user, left, starts, edits>>

(* Fault: the file is not emptied. *)
DnsTruncateNot ==
  /\ main.pc = "dns_truncate"
  /\ Goto("dns_seek")
  /\ UNCHANGED <<resolv, forward, dns, ip, term, user, left, starts, edits>>

DnsTruncate ==
  /\ main.pc = "dns_truncate"
  /\ \/ Goto("dns_seek") /\ resolv' = <<>> /\ UNCHANGED dns
     \/ Unwind /\ dns' = None /\ UNCHANGED resolv
  /\ UNCHANGED <<forward, ip, term, user, left, starts, edits>>

(* The file is empty already when the seek fails. *)
DnsSeek ==
  /\ main.pc = "dns_seek"
  /\ \/ Goto("dns_write") /\ UNCHANGED <<dns, left>>
     \/ Unwind /\ dns' = None /\ left' = TRUE
  /\ UNCHANGED <<resolv, forward, ip, term, user, starts, edits>>

DnsWrite ==
  /\ main.pc = "dns_write"
  /\ \/ /\ Goto(IF main.gateway THEN "ip_read" ELSE "poll")
        /\ resolv' = Overwrite(resolv, Own)
        /\ UNCHANGED <<dns, left>>
     \/ /\ Unwind /\ dns' = None /\ left' = TRUE
        /\ \E n \in 0..(Len(Own) - 1) : resolv' = SubSeq(Own, 1, n)
  /\ UNCHANGED <<forward, ip, term, user, starts, edits>>

(* IpForward::new, in gateway mode. *)
IpRead ==
  /\ main.pc = "ip_read"
  /\ \/ Goto("ip_write") /\ ip' = Some(forward)
     \/ Unwind /\ UNCHANGED ip
  /\ UNCHANGED <<resolv, forward, dns, term, user, left, starts, edits>>

IpWrite ==
  /\ main.pc = "ip_write"
  /\ \/ Goto("poll") /\ forward' = 1 /\ UNCHANGED ip
     \/ Unwind /\ ip' = None /\ UNCHANGED forward
  /\ UNCHANGED <<resolv, dns, term, user, left, starts, edits>>

(* The loop of handle_connection: a call of stream.next() polls the        *)
(* listener ("poll"), and while that has nothing waits for the device or   *)
(* for the timeout of one second ("pending").                              *)

Handling == main.pc \in {"poll", "pending"}

(* Fault: the listener does not look at the flag. *)
PollNextBlind ==
  /\ main.pc = "poll"
  /\ Goto("pending") \/ Goto("poll")
  /\ UNCHANGED <<resolv, forward, dns, ip, term, user, left, starts, edits>>

(* TunListen::poll_next: the stream ends once the flag is set; otherwise   *)
(* it has a new socket, for which a handler is spawned, or nothing.        *)
PollNext ==
  /\ main.pc = "poll"
  /\ \/ term /\ Goto("drop_ip")
     \/ ~term /\ (Goto("pending") \/ Goto("poll"))
  /\ UNCHANGED <<resolv, forward, dns, ip, term, user, left, starts, edits>>

(* A packet wakes the listener before the second is over. *)
Woken ==
  /\ main.pc = "pending"
  /\ Goto("poll")
  /\ UNCHANGED <<resolv, forward, dns, ip, term, user, left, starts, edits>>

(* A second without a new socket: only now the loop looks at the flag. *)
TimedOut ==
  /\ main.pc = "pending"
  /\ Goto(IF term THEN "drop_ip" ELSE "poll")
  /\ UNCHANGED <<resolv, forward, dns, ip, term, user, left, starts, edits>>

(* An error of the stream is a panic of the main thread. *)
LoopFails ==
  /\ main.pc = "poll"
  /\ Unwind
  /\ UNCHANGED <<resolv, forward, dns, ip, term, user, left, starts, edits>>

(* Locals are dropped in the reverse of their order.  A panic in a drop    *)
(* unwinds, and aborts if the thread is unwinding already.                 *)
DropIp ==
  /\ main.pc = "drop_ip"
  /\ \/ /\ Goto("drop_dns")
        /\ forward' = IF ip = None THEN forward ELSE ip[1]
        /\ ip' = None
        /\ UNCHANGED <<dns, left>>
     \/ /\ ip # None
        /\ main' = IF main.unwinding THEN [main EXCEPT !.pc = "off"]
                   ELSE [main EXCEPT !.pc = "drop_dns", !.unwinding = TRUE]
        /\ dns' = IF main.unwinding THEN None ELSE dns
        /\ ip' = None /\ left' = TRUE
        /\ UNCHANGED forward
  /\ UNCHANGED <<resolv, term, user, starts, edits>>

(* The file is opened anew and written over, not emptied first. *)
DropDns ==
  /\ main.pc = "drop_dns"
  /\ \/ /\ resolv' = IF dns = None THEN resolv ELSE Overwrite(resolv, dns[1])
        /\ UNCHANGED left
     \/ /\ dns # None /\ left' = TRUE
        /\ \E n \in 0..Len(dns[1]) : resolv' = Overwrite(resolv, SubSeq(dns[1], 1, n))
  /\ Goto("off") /\ dns' = None
  /\ UNCHANGED <<forward, ip, term, user, starts, edits>>

-----------------------------------------------------------------------------
Running == main.pc # "off"

Signal ==
  /\ Running /\ ~term /\ term' = TRUE
  /\ UNCHANGED <<resolv, forward, main, dns, ip, user, left, starts, edits>>

(* SIGKILL, an abort, a power failure: only the system's settings remain. *)
Crash ==
  /\ Running
  /\ Goto("off") /\ dns' = None /\ ip' = None
  /\ left' = (left \/ resolv # user.resolv \/ forward # user.forward)
  /\ UNCHANGED <<resolv, forward, term, user, starts, edits>>

(* The user sets things up anew, while the program does not run. *)
Edit ==
  /\ ~Running /\ edits < MaxEdits /\ edits' = edits + 1
  /\ resolv' \in Contents /\ forward' \in {0, 1}
  /\ user' = [resolv |-> resolv', forward |-> forward'] /\ left' = FALSE
  /\ UNCHANGED <<main, dns, ip, term, starts>>

Step ==
  \/ TunSetup \/ DnsRead \/ DnsTruncate \/ DnsSeek \/ DnsWrite \/ IpRead \/ IpWrite
  \/ PollNext \/ TimedOut \/ DropIp \/ DropDns

Next == Start \/ Step \/ Woken \/ LoopFails \/ Signal \/ Crash \/ Edit

Spec == Init /\ [][Next]_vars

(* The main thread makes progress, the timer of the loop included; packets, *)
(* signals and failures need not come.                                      *)
FairSpec == Spec /\ WF_vars(Step)

-----------------------------------------------------------------------------
(* Properties *)

(* As long as connections are handled the system asks this program's DNS   *)
(* server and no other, and in gateway mode forwards packets, whatever an  *)
(* earlier run left in the file.                                           *)
OwnSettings ==
  Handling => resolv = Own /\ (main.gateway => forward = 1)

(* What the README says of an exit: the system's DNS setting is what it    *)
(* was.  Speaks of ends by a signal; a crash, and a system call of the     *)
(* set-up or of a drop that fails, are recorded in left.                   *)
DnsPutBack == ~Running /\ ~left /\ ~main.unwinding => resolv = user.resolv

(* What does hold after an end by a signal or by a panic of main, at any   *)
(* point of the set-up or later: forwarding is as it was found, and so is  *)
(* resolv.conf if it was no shorter than the program's own line.           *)
PutBack ==
  ~Running /\ ~left =>
    /\ forward = user.forward
    /\ Len(user.resolv) >= Len(Own) => resolv = user.resolv

(* A signal ends the program, at whatever point it comes and however busy  *)
(* the listener is: the flag is looked at in two places, and neither sees  *)
(* it at once.                                                             *)
SignalEnds == (Running /\ term) ~> ~Running
=============================================================================
