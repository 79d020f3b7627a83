------------------------------ MODULE Presence ------------------------------
(***************************************************************************)
(* How one App comes to see its peers and to trust them: Discovery with    *)
(* its beacons and expiry (Discovery.cpp), the slot of peersChanged        *)
(* (App.cpp:43-89) and the dialogs MainWindow opens from it.               *)
(*                                                                         *)
(* A dialog runs an event loop of its own inside the slot that opened it.  *)
(* Qt does not deliver readyRead of a socket, nor a timer's timeout, while *)
(* a slot of the same signal is still running: the slot's source is        *)
(* silent until its dialogs are answered, the other one goes on.           *)
(*                                                                         *)
(* Time passes in periods of kAnnounceMs.  In each the expire timer fires  *)
(* once and every running peer announces itself once; the event loop       *)
(* handles what it is able to before the period ends.                      *)
(***************************************************************************)
EXTENDS Integers, FiniteSets, Sequences, SequencesExt

CONSTANTS Peers,      \* ids of the other instances
          Prints,     \* fingerprints
          NoPrint,    \* none: an older version, or no peer trusted under this id
          Expire,     \* kExpireMs, in periods
          InboxSize,  \* datagrams the socket holds
          MaxFaults   \* bound on lost beacons, departures and restarts

ASSUME BoundsAssumption == Expire \in Nat /\ InboxSize \in Nat /\ MaxFaults \in Nat
ASSUME PrintsAssumption == NoPrint \notin Prints

VARIABLES up, print,   \* which peers run, and with which fingerprint
          toAnnounce,  \* peers yet to announce themselves in this period
          inbox,       \* datagrams in Discovery's socket
          due,         \* the expire timer's timeout
          records,     \* d->records
          online,      \* m_onlinePeerIds
          asked,       \* m_fingerprintPrompted, with the fingerprint each prompt showed
          known,       \* table known_peers
          calls,       \* slots that wait for a dialog, the innermost last
          faults

peerVars == <<up, print, toAnnounce>>
vars == <<peerVars, inbox, due, records, online, asked, known, calls, faults>>

Sources == {"readyRead", "timeout"}
AnyPrint == Prints \union {NoPrint}
Datagram == [bye : BOOLEAN, id : Peers, print : AnyPrint]
Record == [id : Peers, print : AnyPrint, age : 0..(Expire + 1)]
Call == [source : Sources, asking : Record, rest : Seq(Record)]

TypeOK == /\ up \in [Peers -> BOOLEAN] /\ print \in [Peers -> AnyPrint]
          /\ toAnnounce \subseteq Peers /\ inbox \in Seq(Datagram) /\ due \in BOOLEAN
          /\ records \in Seq(Record) /\ online \subseteq Peers
          /\ asked \subseteq Peers \X Prints /\ known \in [Peers -> AnyPrint]
          /\ calls \in Seq(Call) /\ faults \in 0..MaxFaults

Init == /\ up \in [Peers -> BOOLEAN] /\ print \in [Peers -> AnyPrint]
        /\ toAnnounce = {} /\ inbox = <<>> /\ due = FALSE
        /\ records = <<>> /\ online = {} /\ asked = {}
        /\ known = [p \in Peers |-> NoPrint] /\ calls = <<>> /\ faults = 0

Fault == faults < MaxFaults /\ faults' = faults + 1

Ids(recs) == {recs[i].id : i \in DOMAIN recs}
Prompted(pairs) == {a[1] : a \in pairs}

Running(source) == \E i \in DOMAIN calls : calls[i].source = source

-----------------------------------------------------------------------------
(* The slot of peersChanged.                                               *)

(* The user must be asked about a record: its fingerprint is not the one   *)
(* trusted, and its peer has not been asked about.                         *)
MustAsk(r, trusted, pairs) ==
    r.print # NoPrint /\ trusted[r.id] # r.print /\ r.id \notin Prompted(pairs)

(* The loop over the records of a snapshot, up to the first dialog; below  *)
(* are the slots that wait outside this one.                               *)
AskAbout(snapshot, source, trusted, pairs, below) ==
    LET open == {i \in DOMAIN snapshot : MustAsk(snapshot[i], trusted, pairs)}
    IN IF open = {}
       THEN asked' = pairs /\ calls' = below
       ELSE \E i \in open :
               /\ \A j \in open : i <= j
               /\ asked' = pairs \union {<<snapshot[i].id, snapshot[i].print>>}
               /\ calls' = Append(below, [source |-> source, asking |-> snapshot[i],
                                 rest |-> SubSeq(snapshot, i + 1, Len(snapshot))])

PeersAdded(recs, source) ==
    /\ online' = online \union Ids(recs)
    /\ AskAbout(recs, source, known, asked, calls)

(* Peers that are gone may be asked about again when they come back.       *)
PeersChanged(recs, source) ==
    /\ online' = Ids(recs)
    /\ AskAbout(recs, source, known, {a \in asked : a[1] \notin online \ Ids(recs)}, calls)

-----------------------------------------------------------------------------
(* Discovery.                                                              *)

(* removeIf: the records at the places in kept, in their order.            *)
Place(kept, k) == CHOOSE i \in kept : Cardinality({j \in kept : j <= i}) = k
Kept(recs, kept) == IF kept = DOMAIN recs THEN recs
                    ELSE [k \in 1..Cardinality(kept) |-> recs[Place(kept, k)]]

Without(recs, p) == Kept(recs, {i \in DOMAIN recs : recs[i].id # p})

HeardAnew(d) == Append(records, [id |-> d.id, print |-> d.print, age |-> 0])

(* The record of the announcement d: updated in place or appended.         *)
Heard(d) ==
    LET r == [id |-> d.id, print |-> d.print, age |-> 0]
    IN IF d.id \in Ids(records)
       THEN [i \in DOMAIN records |-> IF records[i].id = d.id THEN r ELSE records[i]]
       ELSE Append(records, r)

IsNewcomer(d) == d.id \notin Ids(records)
IsChange(d) == \E i \in DOMAIN records : records[i].id = d.id /\ records[i].print # d.print

(* Has the announcement changed more than the time?                        *)
IsNews(d) == ~\E i \in DOMAIN records : records[i].id = d.id /\ records[i].print = d.print

(* A datagram is read.                                                     *)
ReadDatagram ==
    LET d == Head(inbox)
        recs == IF d.bye THEN Without(records, d.id) ELSE Heard(d)
        changed == IF d.bye THEN d.id \in Ids(records) ELSE IsNews(d)
    IN /\ inbox # <<>> /\ ~Running("readyRead")
       /\ inbox' = Tail(inbox) /\ records' = recs
       /\ IF changed THEN PeersChanged(recs, "readyRead") ELSE UNCHANGED <<online, asked, calls>>
       /\ UNCHANGED <<peerVars, due, known, faults>>

FreshLater(recs) == Kept(recs, {i \in DOMAIN recs : recs[i].age <= Expire + 1})

(* Records that have been silent for no longer than kExpireMs.             *)
Fresh(recs) == Kept(recs, {i \in DOMAIN recs : recs[i].age <= Expire})

ExpireTimer ==
    LET recs == Fresh(records)
    IN /\ due /\ ~Running("timeout") /\ due' = FALSE
       /\ records' = recs
       /\ IF Len(recs) < Len(records) THEN PeersChanged(recs, "timeout")
                                      ELSE UNCHANGED <<online, asked, calls>>
       /\ UNCHANGED <<peerVars, inbox, known, faults>>

-----------------------------------------------------------------------------
(* The innermost dialog is answered, and its slot goes on with the rest of *)
(* its snapshot.  The dialog has been deleted when its result is read      *)
(* (WA_DeleteOnClose): whatever was clicked, any result may be found.      *)
Answer ==
    LET call == Last(calls)
        p == call.asking
    IN /\ calls # <<>>
       /\ \E result \in {"Trust", "Block", "Later"} :
             known' = IF result = "Trust" THEN [known EXCEPT ![p.id] = p.print] ELSE known
       /\ AskAbout(call.rest, call.source, known', asked, Front(calls))
       /\ UNCHANGED <<peerVars, inbox, due, records, online, faults>>

-----------------------------------------------------------------------------
(* The peers, and time.                                                    *)

Announcement(p) == [bye |-> FALSE, id |-> p, print |-> print[p]]
Goodbye(p) == [bye |-> TRUE, id |-> p, print |-> NoPrint]

(* A datagram that finds the socket full is dropped.                       *)
Arriving(d) == IF Len(inbox) < InboxSize THEN Append(inbox, d) ELSE inbox

Announce(p) ==
    /\ p \in toAnnounce /\ toAnnounce' = toAnnounce \ {p}
    /\ \/ inbox' = Arriving(Announcement(p)) /\ UNCHANGED faults
       \/ inbox' = inbox /\ Fault
    /\ UNCHANGED <<up, print, due, records, online, asked, known, calls>>

Older(recs) == [i \in DOMAIN recs |-> [recs[i] EXCEPT !.age = @ + 1]]

(* The next period begins.                                                 *)
Period ==
    /\ toAnnounce = {}
    /\ inbox = <<>> \/ Running("readyRead")
    /\ ~due \/ Running("timeout")
    /\ toAnnounce' = {p \in Peers : up[p]} /\ due' = TRUE
    /\ records' = Older(records)
    /\ UNCHANGED <<up, print, inbox, online, asked, known, calls, faults>>

(* A peer starts, perhaps after a new installation, and announces itself.  *)
Appear(p) ==
    /\ ~up[p] /\ up' = [up EXCEPT ![p] = TRUE]
    /\ \E f \in AnyPrint : print' = [print EXCEPT ![p] = f]
    /\ toAnnounce' = toAnnounce \union {p}
    /\ UNCHANGED <<inbox, due, records, online, asked, known, calls, faults>>

(* A peer stops with a goodbye, or without one.                            *)
Depart(p) ==
    /\ up[p] /\ Fault /\ up' = [up EXCEPT ![p] = FALSE]
    /\ toAnnounce' = toAnnounce \ {p}
    /\ inbox' \in {inbox, Arriving(Goodbye(p))}
    /\ UNCHANGED <<print, due, records, online, asked, known, calls>>

(* This App is restarted; what is trusted is on disk.                      *)
Restart ==
    /\ Fault
    /\ inbox' = <<>> /\ due' = FALSE /\ records' = <<>> /\ online' = {} /\ asked' = {}
    /\ calls' = <<>>
    /\ UNCHANGED <<peerVars, known>>

Next == \/ ReadDatagram \/ ExpireTimer \/ Answer \/ Period \/ Restart
        \/ \E p \in Peers : Announce(p) \/ Appear(p) \/ Depart(p)

Spec == Init /\ [][Next]_vars

(* Time passes, the timers of running peers fire, and the event loop       *)
(* handles what it may.  The user need not answer.                         *)
FairSpec == /\ Spec
            /\ WF_vars(ReadDatagram) /\ WF_vars(ExpireTimer) /\ WF_vars(Period)
            /\ \A p \in Peers : WF_vars(Announce(p))

-----------------------------------------------------------------------------
(* Every peer that is seen with an untrusted fingerprint has been asked    *)
(* about, whatever the fingerprint was that the user was shown.            *)
NobodyMissed ==
    \A i \in DOMAIN records : ~MustAsk(records[i], known, asked)

(* Nobody is seen with an untrusted fingerprint without a prompt that is   *)
(* remembered for that peer, and a peer none is remembered for is asked    *)
(* about at once, with the very fingerprint it is seen with, however       *)
(* expiry, dialogs, stale snapshots and restarts interleave.  That the     *)
(* fingerprint seen was always the one in the prompt is NOT so: prompts    *)
(* are remembered by the peer's id alone (App.cpp:51-56, 65-79).           *)
EveryoneAsked ==
    [][/\ NobodyMissed'
       /\ \A i \in DOMAIN records' :
             MustAsk(records'[i], known', asked)
                => <<records'[i].id, records'[i].print>> \in asked']_vars

(* m_onlinePeerIds names the peers that Discovery has a record of, once    *)
(* each, also while a slot with an older snapshot waits for its dialog     *)
(* (App.cpp:46-57, Discovery.cpp:147-168).                                 *)
OnlineIsRecorded ==
    /\ online = Ids(records)
    /\ \A i, j \in DOMAIN records : records[i].id = records[j].id => i = j

(* A peer that has gone for good is dropped for good, goodbye or not, with *)
(* a dialog open or not (Discovery.cpp:131-138, 183-190).                  *)
GoneIsDropped == \A p \in Peers : <>[]~up[p] => <>[](p \notin online)

(* A peer that stays is seen again and again, unless dialogs keep opening: *)
(* no beacon that is lost, late or dropped hides it for ever               *)
(* (Discovery.cpp:120-171).                                                *)
StayingIsSeen == \A p \in Peers : <>[]up[p] => []<>(p \in online) \/ []<>(calls # <<>>)

=============================================================================
