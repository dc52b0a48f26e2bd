---------------------------- MODULE NowPlayingModel ----------------------------
(***************************************************************************)
(* The CrowPanel's decoder of BMS2 snapshots (now_playing.h): one record,  *)
(* and accept() from one value of it to the next.                          *)
(***************************************************************************)
EXTENDS NowPlayingWire, FiniteSets

CONSTANT
    Fresh       \* FRESH_MS, in units of time

ASSUME FreshAssumption == Fresh \in Nat \ {0}

NoSession == 0

(* Serial-number order: ahead by less than half the sequence space. *)
Newer(candidate, previous) ==
    LET distance == (WireSeq(candidate) + Modulus - WireSeq(previous)) % Modulus
    IN  distance # 0 /\ distance < Modulus \div 2

NoAssembly == [active |-> FALSE, resync |-> FALSE, session |-> NoSession, number |-> 0,
               content |-> AnyContent, age |-> 0, pieces |-> {}]

ResetModel ==
    [have |-> FALSE, session |-> NoSession, number |-> 0,
     content |-> AnyContent, age |-> 0, pieces |-> {},
     assembly |-> NoAssembly, retired |-> NoSession]

(* Expiry is latched: an age stops at Fresh. *)
IsFresh(rx) == rx.have /\ rx.age < Fresh

-------------------------------------------------------------------------------
(* accept() *)

LiveAssembly(rx) ==
    IF rx.assembly.active /\ rx.assembly.age >= Fresh THEN NoAssembly ELSE rx.assembly

Joins(assembly, f) ==
    assembly.active /\ f.session = assembly.session /\ WireSeq(f.number) = WireSeq(assembly.number)

(* After a long loss the sequence can pass the half window: a first         *)
(* fragment may then resynchronize an expired display.                      *)
Resyncs(rx, f) == rx.have /\ ~IsFresh(rx) /\ f.session = rx.session /\ f.index = 0

(* Mutation: only the session that is shown may go on. *)
WantedOfSession(rx, assembly, f) ==
    rx.have =>
        /\ f.session = rx.session /\ WireSeq(f.number) # WireSeq(rx.number)
        /\ \/ Newer(f.number, rx.number)
           \/ ~IsFresh(rx) /\ (f.index = 0 \/ (Joins(assembly, f) /\ assembly.resync))

(* Within the session shown: newer, or part of a resynchronization. *)
Wanted(rx, assembly, f) ==
    rx.have /\ f.session = rx.session =>
        /\ WireSeq(f.number) # WireSeq(rx.number)
        /\ \/ Newer(f.number, rx.number)
           \/ ~IsFresh(rx) /\ (f.index = 0 \/ (Joins(assembly, f) /\ assembly.resync))

(* What may displace the assembly in progress; another boot begins with its *)
(* first fragment.                                                          *)
Begins(rx, assembly, f) ==
    /\ assembly.active /\ f.session = assembly.session =>
          Newer(f.number, assembly.number) \/ Resyncs(rx, f)
    /\ (rx.have /\ f.session # rx.session) \/ (assembly.active /\ f.session # assembly.session) =>
          f.index = 0

(* Mutation: the fragment mask of the displaced assembly is kept. *)
OpenedOverMask(rx, assembly, f) ==
    IF Joins(assembly, f) THEN assembly
    ELSE [assembly EXCEPT !.active = TRUE, !.resync = Resyncs(rx, f), !.session = f.session,
                          !.number = f.number, !.content = f.content, !.age = 0]

Opened(rx, assembly, f) ==
    IF Joins(assembly, f) THEN assembly
    ELSE [NoAssembly EXCEPT !.active = TRUE, !.resync = Resyncs(rx, f), !.session = f.session,
                            !.number = f.number, !.content = f.content]

Grown(assembly, f) ==
    [assembly EXCEPT !.pieces = @ \cup {[index |-> f.index, content |-> f.content,
                                         session |-> f.session, number |-> f.number]}]

Repeats(assembly, f) == \E p \in assembly.pieces : p.index = f.index
Full(assembly) == Cardinality(assembly.pieces) = Count[assembly.content]
Intact(assembly) == \A p \in assembly.pieces : p.content = assembly.content

(* Mutation: the session left behind is not retired. *)
CommittedUnretired(rx, assembly) ==
    [rx EXCEPT !.have = TRUE, !.session = assembly.session, !.number = assembly.number,
               !.content = assembly.content, !.age = 0, !.pieces = assembly.pieces,
               !.assembly = NoAssembly]

Committed(rx, assembly) ==
    [rx EXCEPT !.have = TRUE, !.session = assembly.session, !.number = assembly.number,
               !.content = assembly.content, !.age = 0, !.pieces = assembly.pieces,
               !.assembly = NoAssembly,
               !.retired = IF rx.have /\ rx.session # assembly.session THEN rx.session ELSE @]

(* Mutation: any fragment of the session shown keeps it fresh. *)
AcceptRefreshes(rx, f) ==
    LET live == LiveAssembly(rx)
        opened == Opened(rx, live, f)
        grown == Grown(opened, f)
        heard == [rx EXCEPT !.age = IF rx.have /\ f.session = rx.session THEN 0 ELSE @]
    IN  IF ~Wanted(rx, live, f) \/ (~Joins(live, f) /\ ~Begins(rx, live, f))
           \/ f.content # opened.content \/ Repeats(opened, f)
        THEN heard
        ELSE IF ~Full(grown) THEN [heard EXCEPT !.assembly = grown]
        ELSE Committed(rx, grown)

Accept(rx, f) ==
    LET live == LiveAssembly(rx)
        opened == Opened(rx, live, f)
        grown == Grown(opened, f)
    IN  IF rx.retired # NoSession /\ f.session = rx.retired THEN rx
        ELSE IF ~Wanted(rx, live, f) \/ (~Joins(live, f) /\ ~Begins(rx, live, f))
        THEN [rx EXCEPT !.assembly = live]
        ELSE IF f.content # opened.content \/ Repeats(opened, f)
        THEN [rx EXCEPT !.assembly = opened]
        ELSE IF ~Full(grown) THEN [rx EXCEPT !.assembly = grown]
        ELSE IF ~Intact(grown) THEN [rx EXCEPT !.assembly = NoAssembly]
        ELSE Committed(rx, grown)

(* One unit of time. *)
AgedModel(rx) ==
    [rx EXCEPT !.age = IF rx.have /\ @ < Fresh THEN @ + 1 ELSE @,
               !.assembly.age = IF rx.assembly.active /\ @ < Fresh THEN @ + 1 ELSE @]
=============================================================================
