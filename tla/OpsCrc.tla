------------------------------- MODULE OpsCrc -------------------------------
(***************************************************************************)
(* The check of the computer modules on the XMH610 boards.  A module that  *)
(* is switched on asks for a random number (AUTH), answers with a checksum *)
(* over it (VERIFY) and gets its picture (HPD) when the answer is right;   *)
(* one that stays silent for five seconds has failed.  The MCU queues what *)
(* the modules send; the board's thread takes one packet per pass, four    *)
(* times a second.  Every packet is sent twice: both copies at once, or    *)
(* one after the other.                                                    *)
(*                                                                         *)
(* The results are Android properties.  XbhOpsManager's thread puts them   *)
(* back when it notices that a module is gone or off; nothing is locked.   *)
(***************************************************************************)
EXTENDS Integers, Sequences, FiniteSets

CONSTANTS
    Limit,      \* passes before a module has failed: 20
    Halvings,   \* the sets, to choose from, of slots whose module sends its copies apart
    Silences,   \* the sets, to choose from, of slots whose module sends nothing
    Queries,    \* slots whose module asks for the kind of screen in the end
    Wakings,    \* the modules, to choose from, that may have woken the board; 0 for none
    MaxMoves    \* bound, by Halvings: how often modules are switched (or plugged, pulled)

Slots == {1, 2}

ASSUME OpsCrcAssumption ==
    /\ Limit \in Nat /\ MaxMoves \in [SUBSET Slots -> Nat]
    /\ Halvings \subseteq SUBSET Slots /\ Silences \subseteq SUBSET Slots
    /\ Queries \subseteq Slots
    /\ Wakings \subseteq Slots \cup {0}

VARIABLES
    enable, halving, silent, woken,  \* chosen once; enable is persist.vendor.xbh.crc.enable
    on,         \* slots with a module that is switched on
    noted,      \* ... as XbhOpsManager knows it
    result,     \* vendor.xbh.ops1crc.result, ops2
    hpd,        \* per slot: the module is told that there is a screen
    counter,    \* ops1_counter, ops2_counter
    random,     \* stored_random, per slot: which of its random numbers, 0 for none yet
    last,       \* last_valid_packet
    hasLast,    \* has_last_packet_ops1, which serves both slots
    crossed,    \* history: a packet of one slot changed that flag between another slot's copies
    inbox,      \* what the MCU has queued
    stage, slot, verdict,  \* where the thread stands
    sender,     \* per slot: where its module stands, the copies it sent and what it heard
    due,        \* history, per slot: for each packet sent, how often it is still to be served
    remains,    \* history: what modules left behind that went (below)
    moves

chosen == <<enable, halving, silent, woken>>
moving == <<on, moves, remains>>
filter == <<last, hasLast, crossed>>
thread == <<stage, slot, verdict>>
crcVars == <<chosen, moving, noted, result, hpd, counter, random, filter, inbox, thread, sender, due>>

Results == {"NOT_PERFORMED", "FAILED", "SUCCESS"}
Packets == [code : {"AUTH", "VERIFY", "QUERY"}, number : Nat]

(* What the MCU queues.  nth (which packet of its slot) and again (the     *)
(* second copy) are history, unseen by the board.                          *)
Entries == [slot : Slots, packet : Packets, nth : Nat, again : BOOLEAN]

(* Something under way or unnoticed; a packet without its second copy.     *)
Remains == {"queued", "half"}

None == [code |-> "none", number |-> 0]

OpsCrcTypeOK ==
    /\ enable \in BOOLEAN /\ halving \in Halvings /\ silent \in Silences /\ woken \in Wakings
    /\ on \subseteq Slots /\ noted \subseteq Slots
    /\ result \in [Slots -> Results]
    /\ hpd \in [Slots -> BOOLEAN]
    /\ counter \in [Slots -> 0..Limit + 1]
    /\ random \in [Slots -> Nat]
    /\ last \in [Slots -> Packets \cup {None}]
    /\ hasLast \in BOOLEAN /\ crossed \in BOOLEAN
    /\ inbox \in Seq(Entries)
    /\ stage \in {"check", "expire", "hpd", "take", "grant", "record"}
    /\ slot \in Slots
    /\ verdict \in Results
    /\ sender \in [Slots -> [pc : {"off", "auth", "wait", "verify", "query", "done"},
                             copies : 0..1, heard : Nat]]
    /\ due \in [Slots -> Seq(Int)]
    /\ remains \subseteq Remains
    /\ moves \in 0..MaxMoves[halving]

-----------------------------------------------------------------------------
Off == [pc |-> "off", copies |-> 0, heard |-> 0]
Asking == [pc |-> "auth", copies |-> 0, heard |-> 0]

(* The constructor: no picture until a module is checked; the one that has *)
(* woken the board counts as checked.                                      *)
CrcInit ==
    /\ enable \in BOOLEAN /\ halving \in Halvings /\ silent \in Silences /\ woken \in Wakings
    /\ on \in {o \in SUBSET Slots : woken \in o \cup {0}}
    /\ noted = on
    /\ result = [s \in Slots |-> IF s = woken THEN "SUCCESS" ELSE "NOT_PERFORMED"]
    /\ hpd = [s \in Slots |-> ~enable]
    /\ counter = [s \in Slots |-> 0]
    /\ random = [s \in Slots |-> 0]
    /\ last = [s \in Slots |-> None] /\ hasLast = FALSE /\ crossed = FALSE
    /\ inbox = << >>
    /\ stage = "check" /\ slot = 1 /\ verdict = "NOT_PERFORMED"
    /\ sender = [s \in Slots |-> IF s \in on /\ s # woken THEN Asking ELSE Off]
    /\ due = [s \in Slots |-> << >>]
    /\ remains = {} /\ moves = 0

-----------------------------------------------------------------------------
(* The board's thread: CRCTimeoutCheck, then OPSByPassProcess.             *)

(* A module that is off or gone starts again; one that is through keeps    *)
(* what it had.                                                            *)
Count(s) == CASE result[s] # "NOT_PERFORMED" -> counter[s]
              [] s \in on /\ result[s] = "NOT_PERFORMED" -> counter[s] + 1
              [] OTHER -> 0

Late == {s \in Slots : counter[s] > Limit}

Check ==
    /\ stage = "check"
    /\ counter' = [s \in Slots |-> Count(s)]
    /\ stage' = IF Late' = {} THEN "hpd" ELSE "expire"
    /\ UNCHANGED <<slot, verdict, result, hpd, random, filter, inbox, sender, due>>

Expire ==
    /\ stage = "expire"
    /\ result' = [s \in Slots |-> IF s \in Late THEN "FAILED" ELSE result[s]]
    /\ counter' = [s \in Slots |-> IF s \in Late THEN 0 ELSE counter[s]]
    /\ stage' = "hpd"
    /\ UNCHANGED <<slot, verdict, hpd, random, filter, inbox, sender, due>>

(* No check, no picture; with the check disabled everything is right. *)
HoldHpd ==
    /\ stage = "hpd"
    /\ result' = IF enable THEN result ELSE [s \in Slots |-> "SUCCESS"]
    /\ hpd' = [s \in Slots |-> hpd[s] /\ (result[s] = "SUCCESS" \/ ~enable)]
    /\ stage' = "take"
    /\ UNCHANGED <<slot, verdict, counter, random, filter, inbox, sender, due>>

TakeNothing ==
    /\ stage = "take" /\ inbox = << >>
    /\ stage' = "check"
    /\ UNCHANGED <<slot, verdict, result, hpd, counter, random, filter, inbox, sender, due>>

(* Faulty: no filter. *)
NeverRepeated(s, packet) == FALSE

(* A copy that came apart from the first. *)
Repeated(s, packet) == s \in halving /\ hasLast /\ packet = last[s]

(* A fresh random number for the module, which goes by the first it hears. *)
Auth(s) ==
    /\ random' = [random EXCEPT ![s] = @ + 1]
    /\ sender' = [sender EXCEPT ![s].heard = IF @ = 0 /\ sender[s].pc # "off" THEN random'[s] ELSE @]
    /\ stage' = "check"
    /\ UNCHANGED <<slot, verdict>>

(* Faulty: notes the result before the picture. *)
VerifyNoting(s, number) ==
    /\ verdict' = IF number = random[s] THEN "SUCCESS" ELSE "FAILED"
    /\ stage' = "record"
    /\ slot' = s
    /\ UNCHANGED <<random, sender>>

(* Faulty: OPS1's random number for both. *)
VerifyFirst(s, number) ==
    /\ verdict' = IF number = random[1] THEN "SUCCESS" ELSE "FAILED"
    /\ stage' = IF number = random[1] THEN "grant" ELSE "record"
    /\ slot' = s
    /\ UNCHANGED <<random, sender>>

Verify(s, number) ==
    /\ verdict' = IF number = random[s] THEN "SUCCESS" ELSE "FAILED"
    /\ stage' = IF number = random[s] THEN "grant" ELSE "record"
    /\ slot' = s
    /\ UNCHANGED <<random, sender>>

(* The board has had the first copy from the slot's module and not the second. *)
Awaits(s) ==
    /\ s \in halving
    /\ \/ /\ sender[s].copies = 1
          /\ \A i \in DOMAIN inbox : inbox[i].slot # s
       \/ \E i \in DOMAIN inbox : /\ inbox[i].slot = s /\ inbox[i].again
                                 /\ \A k \in 1..i - 1 : inbox[k].slot # s

(* The flag is one for both slots. *)
Cross(s) == crossed' = (crossed \/ (hasLast' # hasLast /\ \E t \in Slots \ {s} : Awaits(t)))

(* One packet: the copies are told from each other, the packet is served. *)
Take ==
    /\ stage = "take" /\ inbox # << >>
    /\ inbox' = Tail(inbox)
    /\ LET s == Head(inbox).slot
           packet == Head(inbox).packet
       IN  /\ IF Repeated(s, packet)
              THEN /\ hasLast' = FALSE
                   /\ stage' = "check"
                   /\ UNCHANGED <<slot, last, random, sender, due, verdict>>
              ELSE /\ last' = IF s \in halving THEN [last EXCEPT ![s] = packet] ELSE last
                   /\ hasLast' = (hasLast \/ s \in halving)
                   /\ due' = [due EXCEPT ![s][Head(inbox).nth] = @ - 1]
                   /\ CASE packet.code = "AUTH" -> Auth(s)
                        [] packet.code = "VERIFY" -> Verify(s, packet.number)
                        [] packet.code = "QUERY" -> stage' = "check" /\ UNCHANGED <<slot, verdict, random, sender>>
           /\ Cross(s)
    /\ UNCHANGED <<result, hpd, counter>>

Grant ==
    /\ stage = "grant"
    /\ hpd' = [hpd EXCEPT ![slot] = TRUE]
    /\ stage' = "record"
    /\ UNCHANGED <<slot, verdict, result, counter, random, filter, inbox, sender, due>>

Record ==
    /\ stage = "record"
    /\ result' = [result EXCEPT ![slot] = verdict]
    /\ stage' = "check" /\ slot' = 1 /\ verdict' = "NOT_PERFORMED"
    /\ UNCHANGED <<hpd, counter, random, filter, inbox, sender, due>>

Pass ==
    /\ Check \/ Expire \/ HoldHpd \/ TakeNothing \/ Take \/ Grant \/ Record
    /\ UNCHANGED <<chosen, moving, noted>>

-----------------------------------------------------------------------------
(* Faulty: forgets the result of OPS1 only. *)
NoteFirst(s) ==
    /\ (s \in on) # (s \in noted)
    /\ noted' = IF s \in on THEN noted \cup {s} ELSE noted \ {s}
    /\ result' = IF s \notin on /\ s = 1 THEN [result EXCEPT ![s] = "NOT_PERFORMED"] ELSE result
    /\ UNCHANGED <<chosen, moving, hpd, counter, random, filter, inbox, thread, sender, due>>

(* XbhOpsManager notices that a module came or went. *)
Note(s) ==
    /\ (s \in on) # (s \in noted)
    /\ noted' = IF s \in on THEN noted \cup {s} ELSE noted \ {s}
    /\ result' = IF s \notin on THEN [result EXCEPT ![s] = "NOT_PERFORMED"] ELSE result
    /\ UNCHANGED <<chosen, moving, hpd, counter, random, filter, inbox, thread, sender, due>>

(* The modules. *)
Copies(s) == IF s \in halving THEN 2 ELSE 1

Send(s, from, to, packet) ==
    /\ s \notin silent
    /\ sender[s].pc = from
    /\ due' = [due EXCEPT ![s] = IF sender[s].copies = 0 THEN Append(@, 1) ELSE @]
    /\ inbox' = Append(inbox, [slot |-> s, packet |-> packet,
                               nth |-> Len(due'[s]), again |-> sender[s].copies # 0])
    /\ sender' = [sender EXCEPT ![s].copies = (@ + 1) % Copies(s),
                                ![s].pc = IF @ = from /\ sender[s].copies + 1 = Copies(s)
                                          THEN to ELSE @]
    /\ UNCHANGED <<chosen, moving, noted, result, hpd, counter, random, filter, thread>>

SendAuth(s) == Send(s, "auth", "wait", [code |-> "AUTH", number |-> 0])
SendQuery(s) == Send(s, "query", "done", [code |-> "QUERY", number |-> 0])
SendVerify(s) == Send(s, "verify", IF s \in Queries THEN "query" ELSE "done",
                      [code |-> "VERIFY", number |-> sender[s].heard])

Hear(s) ==
    /\ sender[s].pc = "wait" /\ sender[s].heard # 0
    /\ sender' = [sender EXCEPT ![s].pc = "verify"]
    /\ UNCHANGED <<chosen, moving, noted, result, hpd, counter, random, filter, inbox, thread,
                   due>>

UnderWay(s) ==
    \/ \E i \in DOMAIN inbox : inbox[i].slot = s
    \/ stage \in {"grant", "record"} /\ slot = s
    \/ stage = "expire" /\ s \in Late

Leaves(s) ==
    (IF s \notin noted \/ UnderWay(s) THEN {"queued"} ELSE {})
        \cup (IF sender[s].copies # 0 THEN {"half"} ELSE {})

Switch(s) ==
    /\ moves < MaxMoves[halving]
    /\ moves' = moves + 1
    /\ on' = IF s \in on THEN on \ {s} ELSE on \cup {s}
    /\ remains' = IF s \in on THEN remains \cup Leaves(s) ELSE remains
    /\ sender' = [sender EXCEPT ![s] = IF s \in on THEN Off ELSE Asking]
    /\ UNCHANGED <<chosen, noted, result, hpd, counter, random, filter, inbox, thread,
                   due>>

Module(s) == SendAuth(s) \/ SendVerify(s) \/ SendQuery(s) \/ Hear(s)

CrcNext == Pass \/ \E s \in Slots : Note(s) \/ Module(s) \/ Switch(s)

(* Both threads poll for ever; a module goes through with the check. *)
CrcSpec ==
    /\ CrcInit /\ [][CrcNext]_crcVars
    /\ WF_crcVars(Pass)
    /\ \A s \in Slots : WF_crcVars(Note(s)) /\ WF_crcVars(Module(s))

-----------------------------------------------------------------------------
(* Properties.                                                             *)

(* Each packet is served once, together or apart as its copies may come and *)
(* the modules' packets mix: never twice, and not left out either, when     *)
(* neither the queue nor its sender has any of it any more (and no module   *)
(* went with a packet under way or half sent) - until a packet of the one   *)
(* slot changes the flag they share between the copies of the other's.      *)
EachOnce ==
    \A s \in Slots : \A n \in DOMAIN due[s] :
        ~crossed =>
            /\ due[s][n] >= 0
            /\ inbox = << >> /\ sender[s].copies = 0 /\ remains = {} => due[s][n] = 0

(* A result of SUCCESS comes after the picture: who reads it can switch to *)
(* the module at once.  (Not for the module that has woken the board.)     *)
SuccessIsShown ==
    \A s \in Slots : enable /\ result[s] = "SUCCESS" /\ s # woken => hpd[s]

(* A module that stays on is decided on; one that takes part is verified,  *)
(* whatever went before, a timeout included - unless a packet of its       *)
(* predecessor was still in the queue, whose answer it takes for its own,  *)
(* or the two modules' copies crossed: an AUTH served twice changes the    *)
(* number its module answers for.                                          *)
Decided ==
    \A s \in Slots :
        <>[](s \in on) =>
            <>[](/\ result[s] # "NOT_PERFORMED"
                 /\ s \notin silent \/ ~enable =>
                        result[s] = "SUCCESS" \/ "queued" \in remains \/ crossed)

(* Nothing is left of a module that went while nothing of it was under way *)
(* and after XbhOpsManager had noticed it: neither the result, which the   *)
(* next one would inherit, nor the picture.                                *)
GoneIsForgotten ==
    \A s \in Slots :
        enable /\ <>[](s \notin on /\ "queued" \notin remains) => <>[](result[s] # "SUCCESS" /\ ~hpd[s])
=============================================================================
