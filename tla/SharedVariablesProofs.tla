----------------------- MODULE SharedVariablesProofs -----------------------
(***************************************************************************)
(* Proofs about SharedVariables, for any number of interpreters, any       *)
(* control vectors, and any bound on the number of offers.                 *)
(***************************************************************************)
EXTENDS SharedVariables, FiniteSetTheorems, TLAPS

RecordType == [off : PartnerType, acc : PartnerType, state : SUBSET Bits]

-----------------------------------------------------------------------------
(* Records.                                                                *)

\* A record is cleared, or it has an offering partner, another processor (or
\* nobody, or anybody) as accepting one, and a state of Svar_state.
Whole(r) ==
  \/ r = NoRecord
  \/ /\ r.off.active /\ r.off.id \in Procs
     /\ r.acc.id # r.off.id
     /\ r.acc.active => r.acc.id \in Procs
     /\ r.acc.events => r.acc.active
     /\ r.state \in {NOT_SHARED, IDLE, OFF_HAS_SET, ACC_HAS_SET}

\* Who may ever have been partner of a record: only the one who offers it to
\* anybody; the two processors that it names; and at most two.
Bounded(r, ps) ==
  /\ ps \subseteq Procs
  /\ IF r = NoRecord THEN ps = {} ELSE Active(r) \subseteq ps
  /\ r.acc.id = General => ps \subseteq {r.off.id}
  /\ r.acc.id \in Procs => ps \subseteq {r.off.id, r.acc.id}
  /\ \E a, b \in Procs \cup {NoAP} : ps \subseteq {a, b}

Grown(r, ps) == IF r = NoRecord THEN {} ELSE ps \cup Active(r)

\* What the other partner was allowed to do it still is, unless the terms
\* have changed.
Permits(r, s, p) ==
  \A x \in Active(r) \ {p} :
    Terms(s) = Terms(r) =>
      /\ ~SetRestricted(r, x) => ~SetRestricted(s, x)
      /\ ~UseRestricted(r, x) => ~UseRestricted(s, x)

\* All others keep their events.
Reminds(r, s, p) ==
  \A x \in Procs \ {p} : HasEvents(r, x) => HasEvents(s, x)

\* What a request of p may do to a record: the other partner stays partner,
\* with its permissions and events, and a variable that has been set stays so.
Effect(r, s, p) ==
  /\ s \in RecordType
  /\ Whole(s)
  /\ \A ps : Bounded(r, ps) => Bounded(s, Grown(s, ps))
  /\ Active(r) \ {p} \subseteq Active(s)
  /\ Active(s) \subseteq Active(r) \cup {p}
  /\ r # NoRecord /\ r.state # NOT_SHARED => s = NoRecord \/ s.state # NOT_SHARED
  /\ Permits(r, s, p)
  /\ Reminds(r, s, p)

\* s has the partners of r.
Alike(r, s) ==
  /\ s.off.id = r.off.id /\ s.off.active = r.off.active
  /\ s.acc.id = r.acc.id /\ s.acc.active = r.acc.active

USE DEF NOT_SHARED, IDLE, OFF_HAS_SET, ACC_HAS_SET

\* The numbers of APserver that are not those of an interpreter.
LEMMA Distinct == General \notin Procs /\ NoAP \notin Procs /\ General # NoAP
  BY SharedAssumption DEF SharedAssumption

LEMMA NoRecordFacts ==
  /\ NoRecord \in RecordType /\ Whole(NoRecord) /\ Bounded(NoRecord, {})
  /\ Active(NoRecord) = {} /\ Coupling(NoRecord) = 0
  /\ \A x \in Procs : ~HasEvents(NoRecord, x)
<1>1. NoRecord \in RecordType
  BY DEF NoRecord, NoPartner, RecordType, PartnerType
<1>2. Active(NoRecord) = {} /\ Coupling(NoRecord) = 0
  BY DEF NoRecord, NoPartner, Active, Coupling
<1>3. \A x \in Procs : ~HasEvents(NoRecord, x)
  BY DEF NoRecord, NoPartner, HasEvents
<1>4. Bounded(NoRecord, {})
  BY DEF Bounded
<1> QED BY <1>1, <1>2, <1>3, <1>4 DEF Whole

\* The partners of a record that is not cleared.
LEMMA PartnersOf ==
  ASSUME NEW r \in RecordType, Whole(r), r # NoRecord
  PROVE  /\ Active(r) = IF r.acc.active THEN {r.off.id, r.acc.id} ELSE {r.off.id}
         /\ Coupling(r) = IF r.acc.active THEN 2 ELSE 1
         /\ Active(r) \subseteq Procs /\ Active(r) # {}
<1>1. r.off.active /\ r.off.id \in Procs /\ (r.acc.active => r.acc.id \in Procs)
  BY DEF Whole
<1>2. Active(r) = IF r.acc.active THEN {r.off.id, r.acc.id} ELSE {r.off.id}
  BY <1>1 DEF Active
<1>3. Coupling(r) = IF r.acc.active THEN 2 ELSE 1
  BY <1>1 DEF Coupling
<1> QED BY <1>1, <1>2, <1>3

LEMMA ClearedHasNone ==
  ASSUME NEW r \in RecordType, Whole(r)
  PROVE  Coupling(r) = 0 <=> r = NoRecord
  BY PartnersOf, NoRecordFacts

\* Active partners are processors.
LEMMA ActiveType ==
  ASSUME NEW r \in RecordType, Whole(r)
  PROVE  Active(r) \subseteq Procs
  BY PartnersOf, NoRecordFacts

LEMMA PartyGrows ==
  ASSUME NEW r \in RecordType, Whole(r), NEW s \in RecordType, Whole(s),
         Alike(r, s), r # NoRecord
  PROVE  /\ s # NoRecord
         /\ Active(s) = Active(r) /\ Coupling(s) = Coupling(r)
         /\ \A ps : Bounded(r, ps) => Bounded(s, Grown(s, ps))
<1>1. r.off.active /\ r.off.id \in Procs
  BY DEF Whole
<1>2. s # NoRecord
  BY <1>1, Distinct DEF NoRecord, NoPartner, Alike
<1>3. Active(s) = Active(r) /\ Coupling(s) = Coupling(r)
  BY <1>2, PartnersOf DEF Alike
<1>4. ASSUME NEW ps, Bounded(r, ps)
      PROVE  Bounded(s, Grown(s, ps))
  <2>1. Grown(s, ps) = ps
    BY <1>2, <1>3, <1>4 DEF Grown, Bounded
  <2> QED BY <2>1, <1>2, <1>3, <1>4 DEF Bounded, Alike
<1> QED BY <1>2, <1>3, <1>4

\* A change of flags, events or state by p that keeps the partners.
LEMMA MildEffect ==
  ASSUME NEW p \in Procs, NEW r \in RecordType, Whole(r), p \in Active(r),
         NEW s \in RecordType, Alike(r, s),
         s.acc.events => s.acc.active,
         s.state \in {NOT_SHARED, IDLE, OFF_HAS_SET, ACC_HAS_SET},
         r.state # NOT_SHARED => s.state # NOT_SHARED,
         Permits(r, s, p), Reminds(r, s, p)
  PROVE  Effect(r, s, p) /\ Active(s) = Active(r) /\ Coupling(s) = Coupling(r)
<1>1. r # NoRecord
  BY NoRecordFacts
<1>2. Whole(s)
  BY <1>1 DEF Whole, Alike
<1>3. /\ Active(s) = Active(r) /\ Coupling(s) = Coupling(r)
      /\ \A ps : Bounded(r, ps) => Bounded(s, Grown(s, ps))
  BY <1>1, <1>2, PartyGrows
<1> QED BY <1>2, <1>3 DEF Effect

\* Nothing happens to the record.
LEMMA NoEffect ==
  ASSUME NEW p \in Procs, NEW r \in RecordType, Whole(r)
  PROVE  Effect(r, r, p)
<1>1. ASSUME NEW ps, Bounded(r, ps)
      PROVE  Bounded(r, Grown(r, ps))
  <2>1. Grown(r, ps) = ps
    BY <1>1 DEF Grown, Bounded
  <2> QED BY <2>1, <1>1
<1>2. Permits(r, r, p) /\ Reminds(r, r, p)
  BY DEF Permits, Reminds
<1> QED BY <1>1, <1>2 DEF Effect

\* A role of one of the two partners.
LEMMA Roles ==
  ASSUME NEW r \in RecordType, Whole(r), NEW x \in Active(r)
  PROVE  /\ x \in Procs /\ r # NoRecord
         /\ \/ x = r.off.id /\ x # r.acc.id
            \/ x = r.acc.id /\ x # r.off.id /\ r.acc.active
<1>1. r # NoRecord
  BY NoRecordFacts
<1>2. Active(r) = IF r.acc.active THEN {r.off.id, r.acc.id} ELSE {r.off.id}
  BY <1>1, PartnersOf
<1> QED BY <1>1, <1>2, ActiveType DEF Whole

LEMMA MirrorType ==
  ASSUME NEW ctl \in SUBSET Bits
  PROVE  Mirror(ctl) \in SUBSET Bits
  BY DEF Mirror, Bits

LEMMA ControlledEffect ==
  ASSUME NEW p \in Procs, NEW r \in RecordType, Whole(r), p \in Active(r), NEW ctl \in Controls
  PROVE  /\ Effect(r, Controlled(r, p, ctl), p)
         /\ Alike(r, Controlled(r, p, ctl))
         /\ Coupling(Controlled(r, p, ctl)) = Coupling(r)
<1> DEFINE s == Controlled(r, p, ctl)
<1>1. ctl \in SUBSET Bits /\ Mirror(ctl) \in SUBSET Bits
  BY SharedAssumption, MirrorType DEF Bits, SharedAssumption
<1>2. r # NoRecord /\ (p = r.off.id \/ (p = r.acc.id /\ r.acc.active))
  BY Roles
<1>3. Coupling(r) = 2 => r.acc.active
  BY <1>2, PartnersOf
<1>4. s \in RecordType
  BY <1>1 DEF Controlled, RecordType, PartnerType
<1>5. Alike(r, s) /\ s.state = r.state
  BY DEF Controlled, Alike, RecordType, PartnerType
<1>6. s.acc.events => s.acc.active
  BY <1>2, <1>3, <1>5 DEF Controlled, Alike, RecordType, PartnerType, Whole
<1>7. Terms(s) = Terms(r) => Control(s) = Control(r) /\ s.off.id = r.off.id /\ s.acc.id = r.acc.id
  BY DEF Terms, Control
<1>8. Reminds(r, s, p)
  BY DEF Reminds, Controlled, HasEvents, RecordType, PartnerType
<1>9. \A x : Terms(s) = Terms(r) =>
               /\ SetRestricted(s, x) = SetRestricted(r, x)
               /\ UseRestricted(s, x) = UseRestricted(r, x)
  BY <1>5, <1>7 DEF SetRestricted, UseRestricted, Restriction
<1>10. s.state \in {NOT_SHARED, IDLE, OFF_HAS_SET, ACC_HAS_SET}
  BY <1>2, <1>5 DEF Whole
<1>11. Permits(r, s, p)
  BY <1>9 DEF Permits
<1> QED BY <1>4, <1>5, <1>6, <1>8, <1>10, <1>11, MildEffect

LEMMA AfterSetEffect ==
  ASSUME NEW p \in Procs, NEW r \in RecordType, Whole(r), p \in Active(r)
  PROVE  /\ Effect(r, AfterSet(r, p), p)
         /\ Alike(r, AfterSet(r, p))
         /\ Coupling(AfterSet(r, p)) = Coupling(r)
         /\ AfterSet(r, p).state # NOT_SHARED
<1> DEFINE s == AfterSet(r, p)
<1>1. /\ r # NoRecord
      /\ \/ p = r.off.id /\ p # r.acc.id
         \/ p = r.acc.id /\ p # r.off.id /\ r.acc.active
  BY Roles
<1>2. s \in RecordType
  <2>1. IDLE \in SUBSET Bits /\ OFF_HAS_SET \in SUBSET Bits /\ ACC_HAS_SET \in SUBSET Bits
    BY DEF Bits
  <2>2. PICK a : a = ("SET_BY_OFF" \in Control(r))
    OBVIOUS
  <2>3. PICK b : b = ("SET_BY_ACC" \in Control(r))
    OBVIOUS
  <2>4. a \in BOOLEAN /\ b \in BOOLEAN
    BY <2>2, <2>3
  <2> QED BY <2>1, <2>2, <2>3, <2>4 DEF AfterSet, RecordType, PartnerType
<1>3. Alike(r, s)
  BY DEF AfterSet, Alike, RecordType, PartnerType
<1>4. s.state = IF p = r.off.id THEN OFF_HAS_SET ELSE ACC_HAS_SET
  BY <1>1 DEF AfterSet, RecordType
<1>5. s.acc.events => s.acc.active
  BY <1>1, <1>3 DEF AfterSet, Alike, RecordType, PartnerType, Whole
<1>6. ASSUME NEW x \in Active(r) \ {p}
      PROVE  ~SetRestricted(s, x) /\ ~UseRestricted(s, x)
  <2>1. (p = r.off.id /\ x = r.acc.id) \/ (p = r.acc.id /\ x = r.off.id)
    BY <1>1, <1>6, Roles
  <2>2. s.off.id = r.off.id /\ s.acc.id = r.acc.id
    BY <1>3 DEF Alike
  <2>3. CASE p = r.off.id /\ x = r.acc.id
    <3>1. x # s.off.id /\ s.state = OFF_HAS_SET
      BY <1>1, <1>4, <2>2, <2>3
    <3> QED BY <3>1 DEF SetRestricted, UseRestricted, Restriction
  <2>4. CASE p = r.acc.id /\ x = r.off.id
    <3>1. x = s.off.id /\ s.state = ACC_HAS_SET
      BY <1>1, <1>4, <2>2, <2>4
    <3> QED BY <3>1 DEF SetRestricted, UseRestricted, Restriction
  <2> QED BY <2>1, <2>3, <2>4
<1>7. Reminds(r, s, p)
  BY DEF Reminds, AfterSet, HasEvents, RecordType, PartnerType
<1>8. s.state \in {OFF_HAS_SET, ACC_HAS_SET} /\ s.state # NOT_SHARED
  BY <1>4
<1>9. Permits(r, s, p)
  BY <1>6 DEF Permits
<1> QED BY <1>2, <1>3, <1>5, <1>7, <1>8, <1>9, MildEffect

\* Using makes idle at most a variable that has been set before.
LEMMA AfterUseEffect ==
  ASSUME NEW p \in Procs, NEW r \in RecordType, Whole(r), p \in Active(r), r.state # NOT_SHARED
  PROVE  /\ Effect(r, AfterUse(r, p), p)
         /\ Alike(r, AfterUse(r, p))
         /\ Coupling(AfterUse(r, p)) = Coupling(r)
         /\ AfterUse(r, p).state # NOT_SHARED
<1> DEFINE s == AfterUse(r, p)
           own == IF p = r.off.id THEN OFF_HAS_SET ELSE ACC_HAS_SET
           other == IF p = r.off.id THEN ACC_HAS_SET ELSE OFF_HAS_SET
<1>1. /\ r # NoRecord
      /\ \/ p = r.off.id /\ p # r.acc.id
         \/ p = r.acc.id /\ p # r.off.id /\ r.acc.active
  BY Roles
<1>2. s \in RecordType
  <2>1. IDLE \in SUBSET Bits /\ OFF_HAS_SET \in SUBSET Bits /\ ACC_HAS_SET \in SUBSET Bits
    BY DEF Bits
  <2>2. PICK a : a = ("USE_BY_OFF" \in Control(r))
    OBVIOUS
  <2>3. PICK b : b = ("USE_BY_ACC" \in Control(r))
    OBVIOUS
  <2>4. a \in BOOLEAN /\ b \in BOOLEAN
    BY <2>2, <2>3
  <2> QED BY <2>1, <2>2, <2>3, <2>4 DEF AfterUse, RecordType, PartnerType
<1>3. Alike(r, s)
  BY DEF AfterUse, Alike, RecordType, PartnerType
<1>4. s.state = IF r.state = own THEN r.state ELSE IDLE
  BY <1>1 DEF AfterUse, RecordType
<1>5. s.acc.events => s.acc.active
  BY <1>1, <1>3 DEF AfterUse, Alike, RecordType, PartnerType, Whole
<1>6. r.state \in {IDLE, OFF_HAS_SET, ACC_HAS_SET}
  BY <1>1 DEF Whole
<1>7. ASSUME NEW x \in Active(r) \ {p}, Terms(s) = Terms(r)
      PROVE  /\ ~SetRestricted(r, x) => ~SetRestricted(s, x)
             /\ ~UseRestricted(r, x) => ~UseRestricted(s, x)
  <2>1. (p = r.off.id /\ x = r.acc.id) \/ (p = r.acc.id /\ x = r.off.id)
    BY <1>1, <1>7, Roles
  <2>2. s.off.id = r.off.id /\ s.acc.id = r.acc.id /\ Control(s) = Control(r)
    BY <1>7 DEF Terms, Control
  <2>3. s.state = r.state \/ (s.state = IDLE /\ r.state \in {IDLE, other})
    BY <1>4, <1>6
  <2>4. CASE s.state = r.state
    BY <2>2, <2>4 DEF SetRestricted, UseRestricted, Restriction
  <2>5. CASE s.state = IDLE /\ r.state = other
    <3>1. CASE p = r.off.id /\ x = r.acc.id
      <4>1. x # r.off.id /\ x # s.off.id /\ r.state = ACC_HAS_SET
        BY <1>1, <2>2, <2>5, <3>1
      <4> QED BY <4>1, <2>2, <2>5 DEF SetRestricted, UseRestricted, Restriction
    <3>2. CASE p = r.acc.id /\ x = r.off.id
      <4>1. x = r.off.id /\ x = s.off.id /\ p # r.off.id /\ r.state = OFF_HAS_SET
        BY <1>1, <2>2, <2>5, <3>2
      <4> QED BY <4>1, <2>2, <2>5, <1>1 DEF SetRestricted, UseRestricted, Restriction
    <3> QED BY <2>1, <3>1, <3>2
  <2> QED BY <2>3, <2>4, <2>5
<1>8. Reminds(r, s, p)
  BY DEF Reminds, AfterUse, HasEvents, RecordType, PartnerType
<1>9. s.state \in {IDLE, OFF_HAS_SET, ACC_HAS_SET} /\ s.state # NOT_SHARED
  BY <1>4, <1>6
<1>10. Permits(r, s, p)
  BY <1>7 DEF Permits
<1> QED BY <1>2, <1>3, <1>5, <1>8, <1>9, <1>10, MildEffect

\* Only events change.
LEMMA EventEffect ==
  ASSUME NEW p \in Procs, NEW r \in RecordType, Whole(r), p \in Active(r),
         NEW a \in BOOLEAN, NEW b \in BOOLEAN, b => r.acc.active,
         NEW s, s = [r EXCEPT !.off.events = a, !.acc.events = b],
         Reminds(r, s, p)
  PROVE  /\ Effect(r, s, p) /\ Alike(r, s) /\ Coupling(s) = Coupling(r)
<1>1. s \in RecordType /\ Alike(r, s) /\ s.state = r.state /\ s.acc.events = b
      /\ s.off.flags = r.off.flags /\ s.acc.flags = r.acc.flags
  BY DEF RecordType, PartnerType, Alike
<1>2. \A x : /\ SetRestricted(s, x) = SetRestricted(r, x)
             /\ UseRestricted(s, x) = UseRestricted(r, x)
  BY <1>1 DEF Alike, SetRestricted, UseRestricted, Restriction, Control
<1>3. r # NoRecord
  BY NoRecordFacts
<1>4. s.state \in {NOT_SHARED, IDLE, OFF_HAS_SET, ACC_HAS_SET}
  BY <1>1, <1>3 DEF Whole
<1>5. s.acc.events => s.acc.active
  BY <1>1 DEF Alike
<1>6. Permits(r, s, p)
  BY <1>2 DEF Permits
<1> QED BY <1>1, <1>4, <1>5, <1>6, MildEffect

LEMMA RefusedEffect ==
  ASSUME NEW p \in Procs, NEW r \in RecordType, Whole(r), p \in Active(r)
  PROVE  /\ Effect(r, Refused(r, p), p)
         /\ Alike(r, Refused(r, p))
         /\ Coupling(Refused(r, p)) = Coupling(r)
         /\ Refused(r, p).state = r.state
<1> DEFINE s == Refused(r, p)
<1>1. /\ r # NoRecord
      /\ \/ p = r.off.id /\ p # r.acc.id
         \/ p = r.acc.id /\ p # r.off.id /\ r.acc.active
  BY Roles
<1>2. s \in RecordType
  BY DEF Refused, RecordType, PartnerType
<1>3. Alike(r, s) /\ s.state = r.state
  BY DEF Refused, Alike, RecordType, PartnerType
<1>4. s.off.flags = r.off.flags /\ s.acc.flags = r.acc.flags
  BY DEF Refused, RecordType, PartnerType
<1>5. \A x : /\ SetRestricted(s, x) = SetRestricted(r, x)
             /\ UseRestricted(s, x) = UseRestricted(r, x)
  BY <1>3, <1>4 DEF Alike, SetRestricted, UseRestricted, Restriction, Control
<1>6. Permits(r, s, p)
  BY <1>5 DEF Permits
<1>7. Reminds(r, s, p)
  BY DEF Reminds, Refused, HasEvents, RecordType, PartnerType
<1>8. s.acc.events => s.acc.active
  BY <1>1 DEF Refused, Whole, RecordType, PartnerType
<1>9. s.state \in {NOT_SHARED, IDLE, OFF_HAS_SET, ACC_HAS_SET}
  BY <1>1, <1>3 DEF Whole
<1> QED BY <1>2, <1>3, <1>6, <1>7, <1>8, <1>9, MildEffect

\* The answer to GET_EVENTS is given for every record, whoever its partners.
LEMMA WithoutEventsEffect ==
  ASSUME NEW p \in Procs, NEW r \in RecordType, Whole(r)
  PROVE  /\ Effect(r, WithoutEvents(r, p), p)
         /\ Alike(r, WithoutEvents(r, p))
         /\ Coupling(WithoutEvents(r, p)) = Coupling(r)
         /\ WithoutEvents(r, p).state = r.state
         /\ WithoutEvents(r, p) = NoRecord <=> r = NoRecord
<1> DEFINE s == WithoutEvents(r, p)
<1>1. s \in RecordType
  BY DEF WithoutEvents, RecordType, PartnerType
<1>2. Alike(r, s) /\ s.state = r.state
  BY DEF WithoutEvents, Alike, RecordType, PartnerType
<1>3. s.off.flags = r.off.flags /\ s.acc.flags = r.acc.flags
  BY DEF WithoutEvents, RecordType, PartnerType
<1>4. \A x : /\ SetRestricted(s, x) = SetRestricted(r, x)
             /\ UseRestricted(s, x) = UseRestricted(r, x)
  BY <1>2, <1>3 DEF Alike, SetRestricted, UseRestricted, Restriction, Control
<1>5. Permits(r, s, p)
  BY <1>4 DEF Permits
<1>6. Reminds(r, s, p)
  BY DEF Reminds, WithoutEvents, HasEvents, RecordType, PartnerType
<1>7. CASE r = NoRecord
  <2>1. s = r
    BY <1>7, Distinct DEF WithoutEvents, NoRecord, NoPartner
  <2> QED BY <2>1, <1>2, <1>7, NoEffect
<1>8. CASE r # NoRecord
  <2>1. s.acc.events => s.acc.active
    BY <1>8 DEF WithoutEvents, Whole, RecordType, PartnerType
  <2>2. s.state \in {NOT_SHARED, IDLE, OFF_HAS_SET, ACC_HAS_SET}
    BY <1>2, <1>8 DEF Whole
  <2>3. Whole(s)
    BY <1>2, <1>8, <2>1, <2>2 DEF Whole, Alike
  <2>4. /\ s # NoRecord
        /\ Active(s) = Active(r) /\ Coupling(s) = Coupling(r)
        /\ \A ps : Bounded(r, ps) => Bounded(s, Grown(s, ps))
    BY <1>1, <1>2, <1>8, <2>3, PartyGrows
  <2>5. Effect(r, s, p)
    BY <1>1, <1>2, <1>5, <1>6, <1>8, <2>3, <2>4 DEF Effect
  <2> QED BY <1>2, <1>8, <2>4, <2>5
<1> QED BY <1>7, <1>8

\* An offer of p to q makes a record.
Made(p, q) == [NoRecord EXCEPT !.off = Partner(p), !.acc.id = q]

LEMMA NamedPartner ==
  ASSUME NEW q
  PROVE  [NoPartner EXCEPT !.id = q] = [id |-> q, flags |-> {}, events |-> FALSE, active |-> FALSE]
<1>1. NoPartner \in PartnerType
  BY DEF NoPartner, PartnerType
<1>2. NoPartner.flags = {} /\ NoPartner.events = FALSE /\ NoPartner.active = FALSE
  BY DEF NoPartner
<1>3. [NoPartner EXCEPT !.id = q] =
        [id |-> q, flags |-> NoPartner.flags, events |-> NoPartner.events, active |-> NoPartner.active]
  BY <1>1 DEF PartnerType
<1> QED BY <1>2, <1>3

LEMMA MadeIs ==
  ASSUME NEW p, NEW q
  PROVE  Made(p, q) =
           [off |-> [id |-> p, flags |-> {}, events |-> FALSE, active |-> TRUE],
            acc |-> [id |-> q, flags |-> {}, events |-> FALSE, active |-> FALSE],
            state |-> {}]
<1> DEFINE o == [id |-> p, flags |-> {}, events |-> FALSE, active |-> TRUE]
           n == [id |-> NoAP, flags |-> {}, events |-> FALSE, active |-> FALSE]
<1>1. Made(p, q) = [NoRecord EXCEPT !.off = o, !.acc.id = q]
  BY DEF Made, Partner
<1>2. NoRecord = [off |-> n, acc |-> n, state |-> {}]
  BY DEF NoRecord, NoPartner
<1>3. Made(p, q) = [off |-> o, acc |-> [n EXCEPT !.id = q], state |-> {}]
  BY <1>1, <1>2
<1>4. [n EXCEPT !.id = q] = [id |-> q, flags |-> {}, events |-> FALSE, active |-> FALSE]
  BY NamedPartner DEF NoPartner
<1> QED BY <1>3, <1>4

LEMMA NewEffect ==
  ASSUME NEW p \in Procs, NEW q \in (Procs \ {p}) \cup {General}
  PROVE  LET s == Made(p, q) IN
         /\ Effect(NoRecord, s, p)
         /\ s.off.id = p /\ s.acc.id = q
         /\ s # NoRecord /\ Active(s) = {p} /\ Coupling(s) = 1
<1> DEFINE s == Made(p, q)
<1> DEFINE off == [id |-> p, flags |-> {}, events |-> FALSE, active |-> TRUE]
           acc == [id |-> q, flags |-> {}, events |-> FALSE, active |-> FALSE]
<1>8. q # p /\ q \in Procs \cup {General}
  BY Distinct
<1>9. off \in PartnerType /\ acc \in PartnerType
  BY <1>8 DEF PartnerType
<1>10. off.id = p /\ off.active /\ acc.id = q /\ ~acc.active /\ ~acc.events
  OBVIOUS
<1>11. s = [off |-> off, acc |-> acc, state |-> NOT_SHARED]
  BY MadeIs
<1> HIDE DEF off, acc
<1>7. /\ s.off.id = p /\ s.off.active /\ s.acc.id = q /\ ~s.acc.active /\ ~s.acc.events
      /\ s.state = NOT_SHARED
  <2>1. s.off = off /\ s.acc = acc /\ s.state = NOT_SHARED
    BY <1>11
  <2> QED BY <1>10, <2>1
<1>2. s \in RecordType
  BY <1>9, <1>11 DEF RecordType
<1>3. Whole(s)
  BY <1>7, <1>8 DEF Whole
<1>4. s # NoRecord /\ Active(s) = {p} /\ Coupling(s) = 1
  <2>1. s # NoRecord
    BY <1>7, Distinct DEF NoRecord, NoPartner
  <2> QED BY <1>7, <1>2, <1>3, <2>1, PartnersOf
<1>5. ASSUME NEW ps, Bounded(NoRecord, ps)
      PROVE  Bounded(s, Grown(s, ps))
  <2>1. Grown(s, ps) = {p}
    BY <1>4, <1>5 DEF Grown, Bounded
  <2> QED BY <2>1, <1>7, <1>8, <1>4, Distinct DEF Bounded
<1>6. Permits(NoRecord, s, p) /\ Reminds(NoRecord, s, p)
  BY NoRecordFacts DEF Permits, Reminds
<1> QED BY <1>7, <1>2, <1>3, <1>4, <1>5, <1>6, NoRecordFacts DEF Effect

\* An offer of p to q meets a record, which becomes coupled.
LEMMA AcceptedEffect ==
  ASSUME NEW p \in Procs, NEW q \in (Procs \ {p}) \cup {General},
         NEW r \in RecordType, Whole(r), Matches(r, p, q)
  PROVE  /\ Effect(r, Accepted(r, p), p)
         /\ Active(Accepted(r, p)) = Active(r) \cup {p} /\ Coupling(Accepted(r, p)) = 2
         /\ r # NoRecord /\ Accepted(r, p) # NoRecord
         /\ Accepted(r, p).off.id = r.off.id
<1> DEFINE s == Accepted(r, p)
<1>1. r # NoRecord /\ Coupling(r) = 1
  BY NoRecordFacts DEF Matches
<1>2. r.off.active /\ r.off.id \in Procs /\ ~r.acc.active /\ ~r.acc.events
  BY <1>1, PartnersOf DEF Whole
<1>3. Active(r) = {r.off.id}
  BY <1>1, <1>2, PartnersOf
<1>4. \/ r.acc.id = General /\ r.off.id = q
      \/ r.acc.id = p
  BY DEF Matches
<1>5. r.off.id # p
  BY <1>1, <1>4 DEF Whole
<1>6. s \in RecordType
  BY DEF Accepted, Partner, RecordType, PartnerType, Bits
<1>7. /\ s.off.id = r.off.id /\ s.off.active = r.off.active /\ s.off.flags = r.off.flags
      /\ s.acc = Partner(p) /\ s.state = r.state /\ s.off.events
  BY DEF Accepted, RecordType, PartnerType
<1>8. Whole(s)
  BY <1>1, <1>2, <1>5, <1>7 DEF Whole, Partner
<1>9. s # NoRecord
  BY <1>2, <1>7, Distinct DEF NoRecord, NoPartner
<1>10. Active(s) = {r.off.id, p} /\ Coupling(s) = 2
  BY <1>6, <1>7, <1>8, <1>9, PartnersOf DEF Partner
<1>11. ASSUME NEW ps, Bounded(r, ps)
       PROVE  Bounded(s, Grown(s, ps))
  <2>1. Active(r) \subseteq ps /\ ps \subseteq Procs
    BY <1>1, <1>11 DEF Bounded
  <2>2. ps \subseteq {r.off.id, p}
    BY <1>4, <1>11 DEF Bounded
  <2>3. Grown(s, ps) = {r.off.id, p}
    BY <1>9, <1>10, <2>2 DEF Grown
  <2> QED BY <2>3, <1>2, <1>7, <1>9, <1>10, Distinct DEF Bounded, Partner
<1>12. Permits(r, s, p)
  <2> SUFFICES ASSUME NEW x \in Active(r) \ {p}, Terms(s) = Terms(r)
               PROVE  /\ ~SetRestricted(r, x) => ~SetRestricted(s, x)
                      /\ ~UseRestricted(r, x) => ~UseRestricted(s, x)
    BY DEF Permits
  <2>1. Control(s) = Control(r) /\ s.off.id = r.off.id /\ s.acc.id = r.acc.id
    BY DEF Terms, Control
  <2> QED BY <2>1, <1>7 DEF SetRestricted, UseRestricted, Restriction
<1>13. Reminds(r, s, p)
  BY <1>2, <1>7 DEF Reminds, HasEvents
<1> QED BY <1>1, <1>3, <1>6, <1>7, <1>8, <1>9, <1>10, <1>11, <1>12, <1>13 DEF Effect

\* What is left of a record when p has left: nothing, the record as it was, or
\* the other partner, which waits for p or for nobody.
Deserted(r, s, p) ==
  \/ s = r /\ p \notin Active(r)
  \/ s = NoRecord
  \/ s.acc.id \in {p, NoAP} /\ s.off.id # p /\ Coupling(s) = 1

LEMMA OfferingLeaves ==
  ASSUME NEW p \in Procs, NEW r \in RecordType, Whole(r), r.off.id = p
  PROVE  LET s == Cleared(RemoveOffering(r)) IN
         /\ Effect(r, s, p) /\ Deserted(r, s, p) /\ p \notin Active(s)
<1> DEFINE t == RemoveOffering(r)
           s == Cleared(t)
<1>1. r # NoRecord
  BY Distinct DEF NoRecord, NoPartner
<1>2. r.acc.id # p /\ r.acc \in PartnerType
  BY <1>1 DEF Whole, RecordType
<1>3. /\ t \in RecordType /\ t.off = r.acc
      /\ t.acc = [id |-> p, flags |-> {}, events |-> FALSE, active |-> FALSE]
      /\ t.state = r.state
  <2>1. [id |-> p, flags |-> {}, events |-> FALSE, active |-> FALSE] \in PartnerType
    BY DEF PartnerType
  <2> QED BY <1>2, <2>1, NamedPartner DEF RemoveOffering, RecordType
<1>4. t.acc.id = p /\ ~t.acc.active /\ ~t.acc.events
  BY <1>3
<1>5. CASE ~r.acc.active
  <2>1. Coupling(t) = 0
    BY <1>3, <1>4, <1>5 DEF Coupling
  <2>2. s = NoRecord
    BY <2>1 DEF Cleared
  <2>3. Active(r) = {p}
    BY <1>1, <1>5, PartnersOf
  <2>4. Permits(r, NoRecord, p)
    BY <2>3 DEF Permits
  <2>5. Reminds(r, NoRecord, p)
    BY <1>1, <1>5 DEF Reminds, HasEvents, Whole
  <2>6. \A ps : Bounded(r, ps) => Bounded(NoRecord, Grown(NoRecord, ps))
    BY NoRecordFacts DEF Grown
  <2>7. Effect(r, NoRecord, p)
    BY <2>3, <2>4, <2>5, <2>6, NoRecordFacts DEF Effect
  <2> QED BY <2>2, <2>7, NoRecordFacts DEF Deserted
<1>6. CASE r.acc.active
  <2>1. r.acc.id \in Procs /\ Active(r) = {p, r.acc.id}
    BY <1>1, <1>6, PartnersOf DEF Whole
  <2>2. Coupling(t) = 1
    BY <1>3, <1>4, <1>6 DEF Coupling
  <2>3. s = t
    BY <2>2 DEF Cleared
  <2>4. t # NoRecord
    BY <2>2, NoRecordFacts
  <2>5. Whole(t)
    BY <1>1, <1>2, <1>3, <1>4, <1>6, <2>1 DEF Whole
  <2>6. Active(t) = {r.acc.id}
    BY <1>3, <1>4, <2>4, <2>5, PartnersOf
  <2>7. ASSUME NEW ps, Bounded(r, ps)
        PROVE  Bounded(t, Grown(t, ps))
    <3>1. Active(r) \subseteq ps /\ ps \subseteq {p, r.acc.id}
      BY <1>1, <2>1, <2>7 DEF Bounded
    <3>2. Grown(t, ps) = {p, r.acc.id}
      BY <2>1, <2>4, <2>6, <3>1 DEF Grown
    <3> QED BY <3>2, <1>3, <1>4, <2>1, <2>4, <2>6, Distinct DEF Bounded
  <2>8. Permits(r, t, p)
    <3>1. Terms(t) # Terms(r)
      BY <1>2, <1>3 DEF Terms
    <3> QED BY <3>1 DEF Permits
  <2>9. Reminds(r, t, p)
    BY <1>3 DEF Reminds, HasEvents
  <2>10. Effect(r, t, p)
    BY <1>3, <2>1, <2>5, <2>6, <2>7, <2>8, <2>9 DEF Effect
  <2> QED BY <1>2, <1>3, <1>4, <2>2, <2>3, <2>6, <2>10 DEF Deserted
<1> QED BY <1>5, <1>6, <1>1 DEF Whole

LEMMA AcceptingLeaves ==
  ASSUME NEW p \in Procs, NEW r \in RecordType, Whole(r), r.acc.id = p
  PROVE  LET s == RemoveAccepting(r) IN
         /\ Effect(r, s, p) /\ Deserted(r, s, p) /\ p \notin Active(s)
         /\ s.off.id # p /\ Cleared(s) = s
<1> DEFINE s == RemoveAccepting(r)
<1>1. r # NoRecord
  BY Distinct DEF NoRecord, NoPartner
<1>2. r.off.id # p /\ r.off.active /\ r.off.id \in Procs
  BY <1>1 DEF Whole
<1>3. NoPartner \in PartnerType /\ NoPartner.id = NoAP /\ ~NoPartner.active /\ ~NoPartner.events
  BY DEF NoPartner, PartnerType
<1>4. /\ s \in RecordType /\ s.off = r.off /\ s.acc = NoPartner /\ s.state = r.state
  BY <1>3 DEF RemoveAccepting, RecordType
<1>5. s # NoRecord
  BY <1>2, <1>4, Distinct DEF NoRecord, NoPartner
<1>6. Whole(s)
  BY <1>1, <1>2, <1>3, <1>4, Distinct DEF Whole
<1>7. Active(s) = {r.off.id} /\ Coupling(s) = 1
  BY <1>3, <1>4, <1>5, <1>6, PartnersOf
<1>8. Active(r) \subseteq {r.off.id, p}
  BY <1>1, PartnersOf
<1>9. ASSUME NEW ps, Bounded(r, ps)
      PROVE  Bounded(s, Grown(s, ps))
  <2>1. Active(r) \subseteq ps /\ ps \subseteq {r.off.id, p} /\ r.off.id \in Active(r)
    BY <1>1, <1>9, PartnersOf DEF Bounded
  <2>2. Grown(s, ps) = ps
    BY <1>5, <1>7, <2>1 DEF Grown
  <2> QED BY <2>1, <2>2, <1>2, <1>3, <1>4, <1>5, <1>7, Distinct DEF Bounded
<1>10. Permits(r, s, p)
  <2>1. Terms(s) # Terms(r)
    BY <1>3, <1>4, Distinct DEF Terms
  <2> QED BY <2>1 DEF Permits
<1>11. Reminds(r, s, p)
  BY <1>4 DEF Reminds, HasEvents
<1>12. Effect(r, s, p)
  <2>1. Active(r) \ {p} \subseteq Active(s) /\ Active(s) \subseteq Active(r) \cup {p}
    BY <1>1, <1>7, <1>8, PartnersOf
  <2> QED BY <2>1, <1>4, <1>6, <1>9, <1>10, <1>11 DEF Effect
<1>13. Cleared(s) = s
  BY <1>7 DEF Cleared
<1> QED BY <1>2, <1>3, <1>4, <1>7, <1>12, <1>13 DEF Deserted

LEMMA RetractedEffect ==
  ASSUME NEW p \in Procs, NEW r \in RecordType, Whole(r)
  PROVE  /\ Effect(r, Retracted(r, p), p)
         /\ Deserted(r, Retracted(r, p), p)
         /\ p \notin Active(Retracted(r, p))
<1>1. CASE r.off.id = p
  BY <1>1, OfferingLeaves DEF Retracted
<1>2. CASE r.off.id # p /\ r.acc.id = p
  BY <1>2, AcceptingLeaves DEF Retracted
<1>3. CASE r.off.id # p /\ r.acc.id # p
  <2>1. Retracted(r, p) = r
    BY <1>3, ClearedHasNone DEF Retracted, Cleared
  <2>2. p \notin Active(r)
    BY <1>3, Roles
  <2> QED BY <2>1, <2>2, NoEffect DEF Deserted
<1> QED BY <1>1, <1>2, <1>3

\* A processor that dies leaves each record as one that retracts.
LEMMA AbandonedIsRetracted ==
  ASSUME NEW p \in Procs, NEW r \in RecordType, Whole(r)
  PROVE  Abandoned(r, p) = Retracted(r, p)
<1>1. CASE r.acc.id = p
  <2>1. r # NoRecord
    BY <1>1, Distinct DEF NoRecord, NoPartner
  <2>2. r.off.id # p
    BY <1>1, <2>1 DEF Whole
  <2>3. RemoveAccepting(r).off.id # p
    BY <1>1, AcceptingLeaves
  <2> QED BY <1>1, <2>2, <2>3 DEF Abandoned, Retracted
<1>2. CASE r.acc.id # p
  BY <1>2 DEF Abandoned, Retracted
<1> QED BY <1>1, <1>2

-----------------------------------------------------------------------------
(* The invariant.                                                          *)

\* Records are whole, and only their two parties were ever partners.
Records == \A k \in Key : Whole(db[k]) /\ Bounded(db[k], party[k])

\* Partners are connected (close_fd() removes those who are not).
Reached == \A k \in Key : Active(db[k]) \subseteq connected

\* Keys that are not made yet have no record and no value.
Unused == \A k \in Key : k > seq => db[k] = NoRecord /\ value[k] = NoAP

\* A variable with a value has a state that says who has set or used it.
StateKnown ==
  \A k \in Key : value[k] # NoAP => db[k] = NoRecord \/ db[k].state # NOT_SHARED

\* An interpreter offers only while it holds no key, and sets and uses only
\* while it holds one.
Places ==
  \A p \in Procs :
    /\ pc[p] = "offered" => reply[p] # 0
    /\ reply[p] # 0 => sym[p] = 0
    /\ pc[p] \in {"assign", "wait_set", "set", "wait_use", "use"} => sym[p] # 0

IInv ==
  /\ TypeOK /\ Records /\ Reached /\ Unused /\ StateKnown /\ Places
  /\ HolderIsPartner /\ PermissionLasts /\ OffersMeet

\* A step of p.
By(p) ==
  \/ Connect(p)
  \/ Disconnect(p)
  \/ \E q \in (Procs \ {p}) \cup {General} : Offer(p, q)
  \/ Share(p)
  \/ \E ctl \in Controls : SetControl(p, ctl)
  \/ MaySet(p)
  \/ Set(p)
  \/ MayUse(p)
  \/ Use(p)
  \/ Retract(p)
  \/ Expunge(p)
  \/ GetEvents(p)
  \/ ClearEvents(p)

\* The other interpreters are where they were.
Alone(p) ==
  \A x \in Procs \ {p} : sym'[x] = sym[x] /\ reply'[x] = reply[x] /\ pc'[x] = pc[x]

\* A request changes the records as Effect says, and makes at most the next one.
Request(p) ==
  /\ db' \in [Key -> RecordType]
  /\ \A k \in Key : Effect(db[k], db'[k], p)
  /\ \A k \in Key : db[k] = NoRecord => db'[k] = NoRecord \/ (k = seq + 1 /\ seq' = k)

\* A request that changes no partner, and nobody gets a key by it but from a
\* reply.
Quiet(p) ==
  /\ \A k \in Key : Alike(db[k], db'[k]) /\ Coupling(db'[k]) = Coupling(db[k])
  /\ \A x \in Procs : {sym'[x], reply'[x]} \ {0} \subseteq {sym[x], reply[x]}
  /\ seq' = seq

LEMMA Typing ==
  ASSUME IInv
  PROVE  /\ MaxKeys \in Nat /\ Key = 1 .. MaxKeys
         /\ db \in [Key -> RecordType]
         /\ \A k \in Key : db[k] \in RecordType /\ Whole(db[k])
         /\ seq \in 0 .. MaxKeys
         /\ value \in [Key -> Procs \cup {NoAP}]
         /\ connected \subseteq Procs
         /\ sym \in [Procs -> 0 .. MaxKeys]
         /\ reply \in [Procs -> 0 .. MaxKeys]
         /\ pc \in [Procs -> {"idle", "offered", "assign", "wait_set", "set",
                              "wait_use", "use", "poll", "clear"}]
         /\ \A p \in Procs : sym[p] # 0 =>
               sym[p] \in Key /\ p \in Active(db[sym[p]]) /\ db[sym[p]] # NoRecord
  <1>1. /\ MaxKeys \in Nat /\ Key = 1 .. MaxKeys
        /\ db \in [Key -> RecordType]
        /\ sym \in [Procs -> 0 .. MaxKeys]
    BY SharedAssumption DEF IInv, TypeOK, SharedAssumption, Key, RecordType
  <1>2. \A k \in Key : Whole(db[k])
    BY DEF IInv, Records
  <1>3. \A p \in Procs : sym[p] # 0 =>
               sym[p] \in Key /\ p \in Active(db[sym[p]])
    BY <1>1 DEF IInv, HolderIsPartner
  <1>4. \A p \in Procs : sym[p] # 0 => db[sym[p]] # NoRecord
    BY <1>3, NoRecordFacts
  <1> QED BY <1>1, <1>2, <1>3, <1>4 DEF IInv, TypeOK

\* The record of p's key is the only one that a request changes.
LEMMA OneRecord ==
  ASSUME IInv, NEW p \in Procs, sym[p] # 0, seq' = seq,
         NEW s \in RecordType, Effect(db[sym[p]], s, p), Alike(db[sym[p]], s),
         Coupling(s) = Coupling(db[sym[p]]),
         db' = [db EXCEPT ![sym[p]] = s],
         \A x \in Procs : {sym'[x], reply'[x]} \ {0} \subseteq {sym[x], reply[x]}
  PROVE  Request(p) /\ Quiet(p)
<1>1. /\ db \in [Key -> RecordType] /\ sym[p] \in Key
      /\ \A k \in Key : db[k] \in RecordType /\ Whole(db[k])
      /\ db[sym[p]] # NoRecord
  BY Typing
<1>2. db' \in [Key -> RecordType]
  BY <1>1
<1>3. \A k \in Key : db'[k] = IF k = sym[p] THEN s ELSE db[k]
  BY <1>1
<1>4. \A k \in Key : Effect(db[k], db'[k], p)
  BY <1>1, <1>3, NoEffect
<1>5. \A k \in Key : Alike(db[k], db'[k]) /\ Coupling(db'[k]) = Coupling(db[k])
  BY <1>3 DEF Alike
<1>6. \A k \in Key : db[k] = NoRecord => db'[k] = NoRecord
  BY <1>1, <1>3
<1> QED BY <1>2, <1>4, <1>5, <1>6 DEF Request, Quiet

\* No record is changed.
LEMMA NoChange ==
  ASSUME IInv, NEW p \in Procs, seq' = seq, db' = db,
         \A x \in Procs : {sym'[x], reply'[x]} \ {0} \subseteq {sym[x], reply[x]}
  PROVE  Request(p) /\ Quiet(p)
<1>1. /\ db \in [Key -> RecordType]
      /\ \A k \in Key : db[k] \in RecordType /\ Whole(db[k])
  BY Typing
<1>2. \A k \in Key : Effect(db[k], db'[k], p)
  BY <1>1, NoEffect
<1> QED BY <1>1, <1>2 DEF Request, Quiet, Alike

\* The steps that change no partner.
LEMMA QuietSteps ==
  ASSUME IInv, NEW p \in Procs,
         \/ Connect(p) \/ Share(p) \/ Expunge(p) \/ GetEvents(p) \/ ClearEvents(p)
         \/ (\E ctl \in Controls : SetControl(p, ctl))
         \/ MaySet(p) \/ Set(p) \/ MayUse(p) \/ Use(p)
  PROVE  Request(p) /\ Quiet(p) /\ Alone(p)
<1> DEFINE Keys == \A x \in Procs : {sym'[x], reply'[x]} \ {0} \subseteq {sym[x], reply[x]}
           k == sym[p]
<1>0. /\ sym \in [Procs -> 0 .. MaxKeys] /\ reply \in [Procs -> 0 .. MaxKeys]
      /\ pc \in [Procs -> {"idle", "offered", "assign", "wait_set", "set",
                           "wait_use", "use", "poll", "clear"}]
      /\ db \in [Key -> RecordType]
      /\ \A j \in Key : db[j] \in RecordType /\ Whole(db[j])
  BY Typing
<1>1. Alone(p)
  BY <1>0 DEF Alone, Connect, Share, Expunge, GetEvents, ClearEvents, SetControl, MaySet, Set,
     MayUse, Use, Goto
<1>2. k # 0 => k \in Key /\ db[k] \in RecordType /\ Whole(db[k]) /\ p \in Active(db[k])
  BY <1>0, Typing
<1>3. seq' = seq
  BY DEF Connect, Share, Expunge, GetEvents, ClearEvents, SetControl, MaySet, Set, MayUse, Use
<1>4. Keys
  BY <1>0 DEF Connect, Share, Expunge, GetEvents, ClearEvents, SetControl, MaySet, Set,
     MayUse, Use
<1> HIDE DEF Keys
<1>5. ASSUME db' = db
      PROVE  Request(p) /\ Quiet(p)
  BY <1>3, <1>4, <1>5, NoChange DEF Keys
<1>6. ASSUME k # 0, NEW s \in RecordType, Effect(db[k], s, p), Alike(db[k], s),
             Coupling(s) = Coupling(db[k]), db' = [db EXCEPT ![k] = s]
      PROVE  Request(p) /\ Quiet(p)
  BY <1>3, <1>4, <1>6, OneRecord DEF Keys
<1>7. CASE Connect(p) \/ Share(p) \/ Expunge(p) \/ GetEvents(p)
  <2>1. db' = db
    BY <1>7 DEF Connect, Share, Expunge, GetEvents
  <2> QED BY <2>1, <1>1, <1>5
<1>8. CASE ClearEvents(p)
  <2>1. db' = [j \in Key |-> WithoutEvents(db[j], p)]
    BY <1>8 DEF ClearEvents
  <2>2. \A j \in Key :
          /\ Effect(db[j], WithoutEvents(db[j], p), p) /\ Alike(db[j], WithoutEvents(db[j], p))
          /\ Coupling(WithoutEvents(db[j], p)) = Coupling(db[j])
          /\ WithoutEvents(db[j], p) = NoRecord <=> db[j] = NoRecord
          /\ WithoutEvents(db[j], p) \in RecordType
    BY <1>0, WithoutEventsEffect DEF Effect
  <2>3. Request(p)
    BY <2>1, <2>2 DEF Request
  <2>4. Quiet(p)
    BY <2>1, <2>2, <1>3, <1>4 DEF Quiet, Keys
  <2> QED BY <2>3, <2>4, <1>1
<1>9. ASSUME NEW ctl \in Controls, SetControl(p, ctl)
      PROVE  Request(p) /\ Quiet(p)
  <2>1. k # 0 /\ db' = [db EXCEPT ![k] = Controlled(db[k], p, ctl)]
    BY <1>9 DEF SetControl
  <2>2. /\ Effect(db[k], Controlled(db[k], p, ctl), p) /\ Alike(db[k], Controlled(db[k], p, ctl))
        /\ Coupling(Controlled(db[k], p, ctl)) = Coupling(db[k])
    BY <2>1, <1>2, ControlledEffect
  <2>3. Controlled(db[k], p, ctl) \in RecordType
    BY <2>2 DEF Effect
  <2> QED BY <2>1, <2>2, <2>3, <1>6
<1>10. CASE MaySet(p) \/ MayUse(p)
  <2>1. k # 0 /\ (db' = db \/ db' = [db EXCEPT ![k] = Refused(db[k], p)])
    BY <1>10 DEF MaySet, MayUse, Mine
  <2>2. /\ Effect(db[k], Refused(db[k], p), p) /\ Alike(db[k], Refused(db[k], p))
        /\ Coupling(Refused(db[k], p)) = Coupling(db[k])
    BY <2>1, <1>2, RefusedEffect
  <2>3. Refused(db[k], p) \in RecordType
    BY <2>2 DEF Effect
  <2> QED BY <2>1, <2>2, <2>3, <1>1, <1>5, <1>6
<1>11. CASE Set(p)
  <2>1. k # 0
    BY <1>11 DEF Set, At, IInv, Places
  <2>2. db' = [db EXCEPT ![k] = AfterSet(db[k], p)]
    BY <1>11 DEF Set
  <2>3. /\ Effect(db[k], AfterSet(db[k], p), p) /\ Alike(db[k], AfterSet(db[k], p))
        /\ Coupling(AfterSet(db[k], p)) = Coupling(db[k])
    BY <2>1, <1>2, AfterSetEffect
  <2>4. AfterSet(db[k], p) \in RecordType
    BY <2>3 DEF Effect
  <2> QED BY <2>1, <2>2, <2>3, <2>4, <1>1, <1>6
<1>12. CASE Use(p)
  <2>1. k # 0
    BY <1>12 DEF Use, At, IInv, Places
  <2>2. db' = db \/ (value[k] # NoAP /\ db' = [db EXCEPT ![k] = AfterUse(db[k], p)])
    BY <1>12 DEF Use
  <2>3. value[k] # NoAP => db[k].state # NOT_SHARED
    BY <2>1, Typing DEF IInv, StateKnown
  <2>4. value[k] # NoAP =>
        /\ Effect(db[k], AfterUse(db[k], p), p) /\ Alike(db[k], AfterUse(db[k], p))
        /\ Coupling(AfterUse(db[k], p)) = Coupling(db[k])
    BY <2>1, <2>3, <1>2, AfterUseEffect
  <2>5. value[k] # NoAP => AfterUse(db[k], p) \in RecordType
    BY <2>4 DEF Effect
  <2> QED BY <2>1, <2>2, <2>4, <2>5, <1>1, <1>5, <1>6
<1> QED BY <1>1, <1>7, <1>8, <1>9, <1>10, <1>11, <1>12

\* An offer is one of the two: it meets a record, or makes one.
Meets(p, q, k) ==
  /\ k \in Key /\ Matches(db[k], p, q)
  /\ db' = [db EXCEPT ![k] = Accepted(db[k], p)]
  /\ reply' = [reply EXCEPT ![p] = k]
  /\ seq' = seq
Makes(p, q) ==
  /\ \A k \in Key : ~Matches(db[k], p, q)
  /\ seq < MaxKeys /\ seq' = seq + 1
  /\ db' = [db EXCEPT ![seq + 1] = Made(p, q)]
  /\ reply' = [reply EXCEPT ![p] = seq + 1]

LEMMA OfferCases ==
  ASSUME IInv, NEW p \in Procs, NEW q \in (Procs \ {p}) \cup {General}, Offer(p, q)
  PROVE  /\ (\E k \in Key : Meets(p, q, k)) \/ Makes(p, q)
         /\ Alone(p)
         /\ p \in connected /\ sym[p] = 0 /\ pc' = [pc EXCEPT ![p] = "offered"]
         /\ connected' = connected /\ sym' = sym /\ value' = value
<1>1. /\ p \in connected /\ sym[p] = 0 /\ pc' = [pc EXCEPT ![p] = "offered"]
      /\ connected' = connected /\ sym' = sym /\ value' = value
  BY DEF Offer, At, Goto
<1>2. (\E k \in Key : Meets(p, q, k)) \/ Makes(p, q)
  BY DEF Offer, Meets, Makes, Made
<1>3. \A x \in Procs \ {p} : reply'[x] = reply[x]
  BY <1>2, Typing DEF Meets, Makes
<1> QED BY <1>1, <1>2, <1>3, Typing DEF Alone

LEMMA MeetsRequest ==
  ASSUME IInv, NEW p \in Procs, NEW q \in (Procs \ {p}) \cup {General},
         NEW k \in Key, Meets(p, q, k)
  PROVE  /\ Request(p)
         /\ Active(db'[k]) = Active(db[k]) \cup {p} /\ Coupling(db'[k]) = 2
         /\ \A j \in Key \ {k} : db'[j] = db[j]
<1>1. /\ db \in [Key -> RecordType]
      /\ \A j \in Key : db[j] \in RecordType /\ Whole(db[j])
  BY Typing
<1>2. /\ Effect(db[k], Accepted(db[k], p), p)
      /\ Active(Accepted(db[k], p)) = Active(db[k]) \cup {p} /\ Coupling(Accepted(db[k], p)) = 2
      /\ db[k] # NoRecord
  BY <1>1, AcceptedEffect DEF Meets
<1>3. Accepted(db[k], p) \in RecordType
  BY <1>2 DEF Effect
<1>4. \A j \in Key : db'[j] = IF j = k THEN Accepted(db[k], p) ELSE db[j]
  BY <1>1 DEF Meets
<1>5. \A j \in Key : Effect(db[j], db'[j], p)
  BY <1>1, <1>2, <1>4, NoEffect
<1>6. db' \in [Key -> RecordType]
  BY <1>1, <1>3 DEF Meets
<1> QED BY <1>2, <1>4, <1>5, <1>6 DEF Request

LEMMA MakesRequest ==
  ASSUME IInv, NEW p \in Procs, NEW q \in (Procs \ {p}) \cup {General}, Makes(p, q)
  PROVE  /\ Request(p) /\ seq + 1 \in Key
         /\ db[seq + 1] = NoRecord /\ value[seq + 1] = NoAP
         /\ Active(db'[seq + 1]) = {p} /\ Coupling(db'[seq + 1]) = 1
         /\ db'[seq + 1].off.id = p /\ db'[seq + 1].acc.id = q
         /\ \A j \in Key \ {seq + 1} : db'[j] = db[j]
<1> DEFINE k == seq + 1
<1>1. /\ db \in [Key -> RecordType] /\ seq \in 0 .. MaxKeys /\ MaxKeys \in Nat /\ Key = 1 .. MaxKeys
      /\ \A j \in Key : db[j] \in RecordType /\ Whole(db[j])
  BY Typing
<1>2. k \in Key /\ k > seq
  BY <1>1 DEF Makes
<1>3. db[k] = NoRecord /\ value[k] = NoAP
  BY <1>2 DEF IInv, Unused
<1>4. /\ Effect(NoRecord, Made(p, q), p)
      /\ Made(p, q).off.id = p /\ Made(p, q).acc.id = q
      /\ Active(Made(p, q)) = {p} /\ Coupling(Made(p, q)) = 1
  BY NewEffect
<1>5. Made(p, q) \in RecordType
  BY <1>4 DEF Effect
<1>6. db' = [db EXCEPT ![k] = Made(p, q)] /\ seq' = k
  BY DEF Makes
<1> HIDE DEF k
<1>7. \A j \in Key : db'[j] = IF j = k THEN Made(p, q) ELSE db[j]
  BY <1>1, <1>6
<1>8. \A j \in Key : Effect(db[j], db'[j], p)
  BY <1>1, <1>3, <1>4, <1>7, NoEffect
<1>9. db' \in [Key -> RecordType]
  BY <1>1, <1>5, <1>6
<1>10. \A j \in Key : db[j] = NoRecord => db'[j] = NoRecord \/ (j = seq + 1 /\ seq' = j)
  BY <1>6, <1>7 DEF k
<1>11. Request(p)
  BY <1>8, <1>9, <1>10 DEF Request
<1> QED BY <1>2, <1>3, <1>4, <1>7, <1>11 DEF k

\* p gives up its key, or dies.
LEMMA LeavingRequest ==
  ASSUME IInv, NEW p \in Procs, Retract(p) \/ Disconnect(p)
  PROVE  /\ Request(p) /\ Alone(p)
         /\ \A k \in Key : Deserted(db[k], db'[k], p) \/ db'[k] = db[k]
         /\ sym'[p] = 0 /\ reply'[p] = 0
         /\ Disconnect(p) => \A k \in Key : p \notin Active(db'[k])
<1>1. /\ db \in [Key -> RecordType]
      /\ sym \in [Procs -> 0 .. MaxKeys] /\ reply \in [Procs -> 0 .. MaxKeys]
      /\ pc \in [Procs -> {"idle", "offered", "assign", "wait_set", "set",
                           "wait_use", "use", "poll", "clear"}]
      /\ \A j \in Key : db[j] \in RecordType /\ Whole(db[j])
  BY Typing
<1>2. \A k \in Key :
        /\ Effect(db[k], Retracted(db[k], p), p) /\ Deserted(db[k], Retracted(db[k], p), p)
        /\ p \notin Active(Retracted(db[k], p))
        /\ Retracted(db[k], p) \in RecordType
  BY <1>1, RetractedEffect DEF Effect
<1>3. \A k \in Key : db[k] = NoRecord => Retracted(db[k], p) = NoRecord
  <2> SUFFICES Retracted(NoRecord, p) = NoRecord
    OBVIOUS
  <2>1. NoRecord.off.id = NoAP /\ NoRecord.acc.id = NoAP
    BY DEF NoRecord, NoPartner
  <2> QED BY <2>1, Distinct, NoRecordFacts DEF Retracted, Cleared
<1>4. Alone(p)
  BY <1>1 DEF Alone, Retract, Disconnect, Goto
<1>5. sym'[p] = 0 /\ reply'[p] = 0
  BY <1>1 DEF Retract, Disconnect, IInv, Places
<1>6. CASE Retract(p)
  <2>1. sym[p] \in Key /\ db' = [db EXCEPT ![sym[p]] = Retracted(db[sym[p]], p)]
    BY <1>6, Typing DEF Retract
  <2>2. \A k \in Key : db'[k] = IF k = sym[p] THEN Retracted(db[k], p) ELSE db[k]
    BY <2>1, <1>1
  <2>3. db' \in [Key -> RecordType]
    BY <2>1, <1>1, <1>2
  <2>4. \A k \in Key : Effect(db[k], db'[k], p)
    BY <2>2, <1>1, <1>2, NoEffect
  <2>5. \A k \in Key : db[k] = NoRecord => db'[k] = NoRecord
    BY <2>2, <1>3
  <2>6. ~Disconnect(p)
    BY <1>6, <1>1, Typing DEF Retract, Disconnect
  <2> QED BY <2>2, <2>3, <2>4, <2>5, <2>6, <1>2, <1>4, <1>5 DEF Request
<1>7. CASE Disconnect(p)
  <2>1. db' = [k \in Key |-> Abandoned(db[k], p)]
    BY <1>7 DEF Disconnect
  <2>2. \A k \in Key : db'[k] = Retracted(db[k], p)
    BY <2>1, <1>1, AbandonedIsRetracted
  <2>3. db' \in [Key -> RecordType]
    BY <2>1, <2>2, <1>2
  <2> QED BY <2>2, <2>3, <1>2, <1>3, <1>4, <1>5 DEF Request
<1> QED BY <1>6, <1>7

LEMMA Requests ==
  ASSUME IInv, NEW p \in Procs, By(p)
  PROVE  Request(p) /\ Alone(p)
<1>1. CASE \E q \in (Procs \ {p}) \cup {General} : Offer(p, q)
  BY <1>1, OfferCases, MeetsRequest, MakesRequest
<1>2. CASE Retract(p) \/ Disconnect(p)
  BY <1>2, LeavingRequest
<1> QED BY <1>1, <1>2, QuietSteps DEF By

-----------------------------------------------------------------------------
(* Each part of the invariant is kept.                                     *)

LEMMA RecordsKept ==
  ASSUME IInv, NEW p \in Procs, By(p), Track
  PROVE  Records'
<1>1. \A k \in Key : Effect(db[k], db'[k], p)
  BY Requests DEF Request
<1>2. \A k \in Key : party'[k] = Grown(db'[k], party[k])
  BY DEF Track, Grown
<1>3. \A k \in Key : Bounded(db[k], party[k])
  BY DEF IInv, Records
<1>4. \A k \in Key : Whole(db'[k]) /\ Bounded(db'[k], party'[k])
  BY <1>1, <1>2, <1>3 DEF Effect
<1>5. Key' = Key
  BY DEF Key
<1> QED BY <1>4, <1>5 DEF Records

LEMMA TypesKept ==
  ASSUME IInv, NEW p \in Procs, By(p), Track
  PROVE  TypeOK'
<1>1. db' \in [Key -> RecordType] /\ \A k \in Key : Whole(db'[k])
  BY Requests DEF Request, Effect
<1>2. /\ MaxKeys \in Nat /\ Key = 1 .. MaxKeys
      /\ seq \in 0 .. MaxKeys
      /\ value \in [Key -> Procs \cup {NoAP}]
      /\ connected \subseteq Procs
      /\ sym \in [Procs -> 0 .. MaxKeys]
      /\ reply \in [Procs -> 0 .. MaxKeys]
      /\ pc \in [Procs -> {"idle", "offered", "assign", "wait_set", "set",
                           "wait_use", "use", "poll", "clear"}]
  BY Typing
<1>3. \A k \in Key : db'[k] = NoRecord \/ (db'[k].off.active /\ db'[k].off.id \in Procs)
  BY <1>1 DEF Whole
<1>4. fresh' \in [Procs -> BOOLEAN]
  BY DEF Track
<1>5. party' \in [Key -> SUBSET Procs]
  <2>1. \A k \in Key : party'[k] \in SUBSET Procs
    BY RecordsKept DEF Records, Bounded, Key
  <2>2. party' = [k \in Key |-> party'[k]]
    BY DEF Track
  <2> QED BY <2>1, <2>2
<1> DEFINE Rest == /\ seq' \in 0 .. MaxKeys
                   /\ value' \in [Key -> Procs \cup {NoAP}]
                   /\ connected' \subseteq Procs
                   /\ sym' \in [Procs -> 0 .. MaxKeys]
                   /\ reply' \in [Procs -> 0 .. MaxKeys]
                   /\ pc' \in [Procs -> {"idle", "offered", "assign", "wait_set", "set",
                                         "wait_use", "use", "poll", "clear"}]
<1>6. ASSUME Connect(p) \/ Share(p) \/ Expunge(p) \/ GetEvents(p) \/ ClearEvents(p)
      PROVE  Rest
  <2>1. CASE Connect(p)
    BY <1>2, <2>1 DEF Connect, Goto, At
  <2>2. CASE Share(p)
    <3>1. /\ sym' = sym \/ sym' = [sym EXCEPT ![p] = reply[p]]
          /\ reply' = [reply EXCEPT ![p] = 0]
          /\ \E place \in {"idle", "assign"} : pc' = [pc EXCEPT ![p] = place]
          /\ UNCHANGED <<seq, value, connected>>
      BY <2>2 DEF Share, Goto
    <3>2. sym' \in [Procs -> 0 .. MaxKeys] /\ reply' \in [Procs -> 0 .. MaxKeys]
      BY <1>2, <3>1
    <3> QED BY <1>2, <3>1, <3>2
  <2>3. CASE Expunge(p)
    BY <1>2, <2>3 DEF Expunge, Goto, At
  <2>4. CASE GetEvents(p)
    BY <1>2, <2>4 DEF GetEvents, Goto, At
  <2>5. CASE ClearEvents(p)
    BY <1>2, <2>5 DEF ClearEvents, Goto, At
  <2> QED BY <1>6, <2>1, <2>2, <2>3, <2>4, <2>5
<1>7. ASSUME Disconnect(p) \/ Retract(p)
      PROVE  Rest
  <2>1. CASE Disconnect(p)
    BY <1>2, <2>1 DEF Disconnect, Goto, At
  <2>2. CASE Retract(p)
    BY <1>2, <2>2 DEF Retract, Goto, At
  <2> QED BY <1>7, <2>1, <2>2
<1>8. ASSUME Set(p) \/ Use(p)
      PROVE  Rest
  <2>1. CASE Set(p)
    BY <1>2, <2>1 DEF Set, Goto, At
  <2>2. CASE Use(p)
    BY <1>2, <2>2 DEF Use, Goto, At
  <2> QED BY <1>8, <2>1, <2>2
<1>9. ASSUME MaySet(p) \/ MayUse(p)
      PROVE  Rest
  BY <1>2, <1>9 DEF MaySet, MayUse, Goto
<1>10. ASSUME NEW ctl \in Controls, SetControl(p, ctl)
       PROVE  Rest
  BY <1>2, <1>10 DEF SetControl
<1>11. ASSUME NEW q \in (Procs \ {p}) \cup {General}, Offer(p, q)
       PROVE  Rest
  <2>1. /\ pc' = [pc EXCEPT ![p] = "offered"]
        /\ connected' = connected /\ sym' = sym /\ value' = value
    BY <1>11, OfferCases
  <2>2. CASE \E k \in Key : Meets(p, q, k)
    BY <2>1, <2>2, <1>2 DEF Meets
  <2>3. CASE Makes(p, q)
    BY <2>1, <2>3, <1>2 DEF Makes
  <2> QED BY <1>11, <2>2, <2>3, OfferCases
<1>12. Rest
  BY <1>6, <1>7, <1>8, <1>9, <1>10, <1>11 DEF By
<1> QED BY <1>1, <1>3, <1>4, <1>5, <1>12 DEF TypeOK, Key, RecordType

LEMMA ReachedKept ==
  ASSUME IInv, NEW p \in Procs, By(p)
  PROVE  Reached'
<1>1. \A k \in Key : Active(db'[k]) \subseteq Active(db[k]) \cup {p}
  BY Requests DEF Request, Effect
<1>2. \A k \in Key : Active(db[k]) \subseteq connected
  BY DEF IInv, Reached
<1>3. CASE Disconnect(p)
  <2>1. \A k \in Key : p \notin Active(db'[k])
    BY <1>3, LeavingRequest
  <2>2. connected' = connected \ {p}
    BY <1>3 DEF Disconnect
  <2> QED BY <1>1, <1>2, <2>1, <2>2 DEF Reached, Key
<1>4. CASE ~Disconnect(p)
  <2>1. connected' = connected \cup {p}
    BY <1>4, OfferCases DEF By, Connect, Share, Expunge, GetEvents, ClearEvents, SetControl,
       MaySet, Set, MayUse, Use, Retract, At
  <2> QED BY <1>1, <1>2, <2>1 DEF Reached, Key
<1> QED BY <1>3, <1>4

\* APserver stays, or exits with its last connection.
LEMMA ServerStays ==
  ASSUME IInv, NEW p \in Procs, By(p)
  PROVE  \/ /\ seq' = seq \/ seq' = seq + 1
            /\ value' = value \/ (Set(p) /\ value' = [value EXCEPT ![sym[p]] = p])
         \/ /\ \A k \in Key : db'[k] = NoRecord /\ value'[k] = NoAP
<1>1. CASE Disconnect(p)
  <2>1. CASE connected = {p}
    <3>1. connected' = {} /\ value' = [k \in Key |-> NoAP]
      BY <1>1, <2>1 DEF Disconnect
    <3>2. \A k \in Key : Active(db'[k]) = {}
      BY <3>1, ReachedKept DEF Reached, Key
    <3>3. \A k \in Key : db'[k] \in RecordType /\ Whole(db'[k])
      BY Requests DEF Request, Effect
    <3> QED BY <3>1, <3>2, <3>3, PartnersOf
  <2>2. CASE connected # {p}
    BY <1>1, <2>2 DEF Disconnect
  <2> QED BY <2>1, <2>2
<1>2. CASE \E q \in (Procs \ {p}) \cup {General} : Offer(p, q)
  BY <1>2, OfferCases DEF Meets, Makes
<1>3. CASE Set(p)
  BY <1>3 DEF Set
<1>4. CASE \/ Connect(p) \/ Share(p) \/ Expunge(p) \/ GetEvents(p) \/ ClearEvents(p)
           \/ (\E ctl \in Controls : SetControl(p, ctl))
           \/ MaySet(p) \/ MayUse(p) \/ Use(p) \/ Retract(p)
  BY <1>4 DEF Connect, Share, Expunge, GetEvents, ClearEvents, SetControl, MaySet, MayUse, Use, Retract
<1> QED BY <1>1, <1>2, <1>3, <1>4 DEF By

LEMMA UnusedKept ==
  ASSUME IInv, NEW p \in Procs, By(p)
  PROVE  Unused'
<1> SUFFICES ASSUME NEW k \in Key, k > seq'
             PROVE  db'[k] = NoRecord /\ value'[k] = NoAP
  BY DEF Unused, Key
<1>1. CASE /\ seq' = seq \/ seq' = seq + 1
           /\ value' = value \/ (Set(p) /\ value' = [value EXCEPT ![sym[p]] = p])
  <2>1. k > seq /\ k \in Nat
    BY <1>1, Typing
  <2>2. db[k] = NoRecord /\ value[k] = NoAP
    BY <2>1 DEF IInv, Unused
  <2>3. db'[k] = NoRecord
    BY <2>1, <2>2, Requests DEF Request
  <2>4. Set(p) => sym[p] # k
    BY <2>2, Typing DEF Set, At, IInv, Places
  <2>5. value'[k] = NoAP
    BY <1>1, <2>2, <2>4, Typing
  <2> QED BY <2>3, <2>5
<1> QED BY <1>1, ServerStays

LEMMA StateKept ==
  ASSUME IInv, NEW p \in Procs, By(p)
  PROVE  StateKnown'
<1> SUFFICES ASSUME NEW k \in Key, value'[k] # NoAP
             PROVE  db'[k] = NoRecord \/ db'[k].state # NOT_SHARED
  BY DEF StateKnown, Key
<1>1. CASE Set(p) /\ sym[p] = k
  <2>1. db' = [db EXCEPT ![k] = AfterSet(db[k], p)]
    BY <1>1 DEF Set
  <2>2. p \in Active(db[k]) /\ db \in [Key -> RecordType] /\ Whole(db[k])
    <3>1. k # 0
      BY Typing
    <3> QED BY <1>1, <3>1, Typing
  <2>3. AfterSet(db[k], p).state # NOT_SHARED
    BY <2>2, AfterSetEffect
  <2> QED BY <2>1, <2>2, <2>3
<1>2. CASE /\ ~(Set(p) /\ sym[p] = k)
           /\ seq' = seq \/ seq' = seq + 1
           /\ value' = value \/ (Set(p) /\ value' = [value EXCEPT ![sym[p]] = p])
  <2>1. value[k] # NoAP
    BY <1>2, Typing
  <2>2. db[k] = NoRecord \/ db[k].state # NOT_SHARED
    BY <2>1 DEF IInv, StateKnown
  <2>3. CASE db[k] = NoRecord
    <3>1. k # seq + 1
      BY <2>1, Typing DEF IInv, Unused
    <3> QED BY <2>3, <3>1, Requests DEF Request
  <2>4. CASE db[k] # NoRecord
    BY <2>2, <2>4, Requests DEF Request, Effect
  <2> QED BY <2>3, <2>4
<1> QED BY <1>1, <1>2, ServerStays

LEMMA PlacesKept ==
  ASSUME IInv, NEW p \in Procs, By(p)
  PROVE  Places'
<1> DEFINE Place(x) == /\ pc[x] = "offered" => reply[x] # 0
                       /\ reply[x] # 0 => sym[x] = 0
                       /\ pc[x] \in {"assign", "wait_set", "set", "wait_use", "use"} => sym[x] # 0
           Placed(x) == /\ pc'[x] = "offered" => reply'[x] # 0
                        /\ reply'[x] # 0 => sym'[x] = 0
                        /\ pc'[x] \in {"assign", "wait_set", "set", "wait_use", "use"} => sym'[x] # 0
<1>1. /\ sym \in [Procs -> 0 .. MaxKeys] /\ reply \in [Procs -> 0 .. MaxKeys]
      /\ pc \in [Procs -> {"idle", "offered", "assign", "wait_set", "set",
                           "wait_use", "use", "poll", "clear"}]
  BY Typing
<1>2. \A x \in Procs : Place(x)
  BY DEF IInv, Places
<1>3. \A x \in Procs \ {p} : Placed(x)
  BY <1>2, Requests DEF Alone
<1>4. ASSUME Connect(p) \/ (\E ctl \in Controls : SetControl(p, ctl))
      PROVE  Placed(p)
  BY <1>2, <1>4 DEF Connect, SetControl
<1>5. ASSUME Disconnect(p)
      PROVE  Placed(p)
  BY <1>1, <1>5 DEF Disconnect, Goto
<1>6. ASSUME NEW q \in (Procs \ {p}) \cup {General}, Offer(p, q)
      PROVE  Placed(p)
  <2>1. sym'[p] = 0 /\ pc'[p] = "offered"
    BY <1>1, <1>6, OfferCases
  <2>2. reply'[p] # 0
    <3>1. CASE \E k \in Key : Meets(p, q, k)
      BY <1>1, <3>1, Typing DEF Meets
    <3>2. CASE Makes(p, q)
      <4>1. seq + 1 \in Key
        BY <3>2, MakesRequest
      <4> QED BY <1>1, <3>2, <4>1, Typing DEF Makes
    <3> QED BY <1>6, <3>1, <3>2, OfferCases
  <2> QED BY <2>1, <2>2
<1>7. ASSUME Share(p)
      PROVE  Placed(p)
  <2>1. reply[p] # 0 /\ reply'[p] = 0
    BY <1>1, <1>2, <1>7 DEF Share, At
  <2>2. \/ sym'[p] = reply[p] /\ pc'[p] \in {"idle", "assign"}
        \/ pc'[p] = "idle"
    BY <1>1, <1>7 DEF Share, Goto
  <2> QED BY <2>1, <2>2
<1>8. ASSUME MaySet(p)
      PROVE  Placed(p)
  <2>1. sym[p] # 0 /\ sym' = sym /\ reply' = reply /\ pc'[p] \in {"wait_set", "set"}
    BY <1>1, <1>8 DEF MaySet, Goto
  <2> QED BY <1>2, <2>1
<1>9. ASSUME MayUse(p)
      PROVE  Placed(p)
  <2>1. sym[p] # 0 /\ sym' = sym /\ reply' = reply /\ pc'[p] \in {"wait_use", "use"}
    BY <1>1, <1>9 DEF MayUse, Goto
  <2> QED BY <1>2, <2>1
<1>10. ASSUME Set(p) \/ Use(p) \/ ClearEvents(p)
       PROVE  Placed(p)
  <2>1. sym' = sym /\ reply' = reply /\ pc'[p] = "idle"
    BY <1>1, <1>10 DEF Set, Use, ClearEvents, Goto
  <2> QED BY <1>2, <2>1
<1>11. ASSUME GetEvents(p)
       PROVE  Placed(p)
  <2>1. sym' = sym /\ reply' = reply /\ pc'[p] \in {"poll", "clear"}
    BY <1>1, <1>11 DEF GetEvents, Goto
  <2> QED BY <1>2, <2>1
<1>12. ASSUME Retract(p) \/ Expunge(p)
       PROVE  Placed(p)
  <2>1. sym'[p] = 0 /\ reply' = reply /\ pc' = pc /\ pc[p] = "idle"
    BY <1>1, <1>12 DEF Retract, Expunge, At
  <2> QED BY <1>2, <2>1
<1>13. Placed(p)
  BY <1>4, <1>5, <1>6, <1>7, <1>8, <1>9, <1>10, <1>11, <1>12 DEF By
<1>14. \A x \in Procs : Placed(x)
  BY <1>3, <1>13
<1> QED BY <1>14 DEF Places

\* Steps of others and quiet steps take no partner away.
LEMMA HoldersKept ==
  ASSUME IInv, NEW p \in Procs, By(p)
  PROVE  HolderIsPartner'
<1> SUFFICES ASSUME NEW x \in Procs, NEW k \in {sym'[x], reply'[x]} \ {0}
             PROVE  x \in Active(db'[k])
  BY DEF HolderIsPartner
<1>1. \A y \in Procs : \A j \in {sym[y], reply[y]} \ {0} : j \in Key /\ y \in Active(db[j])
  BY Typing DEF IInv, HolderIsPartner
<1>2. Request(p) /\ Alone(p)
  BY Requests
<1>3. CASE x # p
  BY <1>1, <1>2, <1>3 DEF Request, Alone, Effect
<1>4. CASE x = p /\ (Retract(p) \/ Disconnect(p))
  BY <1>4, LeavingRequest
<1>5. ASSUME NEW q \in (Procs \ {p}) \cup {General}, Offer(p, q), x = p
      PROVE  x \in Active(db'[k])
  <2>1. sym'[p] = 0
    BY <1>5, OfferCases
  <2>2. CASE \E j \in Key : Meets(p, q, j)
    <3>1. PICK j \in Key : Meets(p, q, j)
      BY <2>2
    <3>2. k = j
      BY <2>1, <3>1, <1>5, Typing DEF Meets
    <3> QED BY <3>1, <3>2, <1>5, MeetsRequest
  <2>3. CASE Makes(p, q)
    <3>1. k = seq + 1
      BY <2>1, <2>3, <1>5, Typing DEF Makes
    <3> QED BY <3>1, <2>3, <1>5, MakesRequest
  <2> QED BY <1>5, <2>2, <2>3, OfferCases
<1>6. CASE x = p /\ Quiet(p)
  <2>1. k \in Key /\ x \in Active(db[k])
    BY <1>1, <1>6 DEF Quiet
  <2>2. db[k] \in RecordType /\ Whole(db[k]) /\ db[k] # NoRecord
    BY <2>1, Typing, NoRecordFacts
  <2>3. db'[k] \in RecordType /\ Whole(db'[k])
    BY <2>1, <1>2 DEF Request, Effect
  <2>4. Active(db'[k]) = Active(db[k])
    BY <2>1, <2>2, <2>3, <1>6, PartyGrows DEF Quiet
  <2> QED BY <2>1, <2>4
<1> QED BY <1>3, <1>4, <1>5, <1>6, QuietSteps DEF By

LEMMA PermissionKept ==
  ASSUME IInv, NEW p \in Procs, By(p), Track
  PROVE  PermissionLasts'
<1> DEFINE Fine(x) == /\ pc'[x] = "set" => ~SetRestricted(db'[sym'[x]], x)
                      /\ pc'[x] = "use" => ~UseRestricted(db'[sym'[x]], x)
<1> SUFFICES ASSUME NEW x \in Procs, fresh'[x]
             PROVE  Fine(x)
  BY DEF PermissionLasts, Mine
<1>1. /\ pc'[x] \in {"set", "use"}
      /\ pc[x] = pc'[x] => fresh[x] /\ Terms(db'[sym[x]]) = Terms(db[sym[x]])
  BY DEF Track
<1>2. pc[x] = pc'[x] =>
        /\ pc[x] = "set" => ~SetRestricted(db[sym[x]], x)
        /\ pc[x] = "use" => ~UseRestricted(db[sym[x]], x)
  BY <1>1 DEF IInv, PermissionLasts, Mine
<1>3. CASE x # p
  <2>1. pc'[x] = pc[x] /\ sym'[x] = sym[x]
    BY <1>3, Requests DEF Alone
  <2>2. sym[x] # 0
    BY <1>1, <2>1 DEF IInv, Places
  <2>3. sym[x] \in Key /\ x \in Active(db[sym[x]])
    BY <2>2, Typing
  <2>4. Permits(db[sym[x]], db'[sym[x]], p)
    BY <2>3, Requests DEF Request, Effect
  <2> QED BY <1>1, <1>2, <1>3, <2>1, <2>3, <2>4 DEF Permits
<1>4. CASE x = p
  <2>0. pc \in [Procs -> {"idle", "offered", "assign", "wait_set", "set",
                         "wait_use", "use", "poll", "clear"}]
    BY Typing
  <2>1. CASE Connect(p)
    BY <1>1, <1>2, <1>4, <2>1 DEF Connect
  <2>2. CASE MaySet(p)
    <3>1. CASE SetRestricted(Mine(p), p)
      BY <1>1, <1>4, <2>0, <2>2, <3>1 DEF MaySet, Goto
    <3>2. CASE ~SetRestricted(Mine(p), p)
      <4>1. db' = db /\ sym' = sym /\ pc'[p] = "set"
        BY <2>0, <2>2, <3>2 DEF MaySet, Goto
      <4> QED BY <4>1, <3>2, <1>4 DEF Mine
    <3> QED BY <3>1, <3>2
  <2>3. CASE MayUse(p)
    <3>1. CASE UseRestricted(Mine(p), p) \/ value[sym[p]] = NoAP
      BY <1>1, <1>4, <2>0, <2>3, <3>1 DEF MayUse, Goto
    <3>2. CASE ~(UseRestricted(Mine(p), p) \/ value[sym[p]] = NoAP)
      <4>1. db' = db /\ sym' = sym /\ pc'[p] = "use"
        BY <2>0, <2>3, <3>2 DEF MayUse, Goto
      <4> QED BY <4>1, <3>2, <1>4 DEF Mine
    <3> QED BY <3>1, <3>2
  <2>4. CASE \E q \in (Procs \ {p}) \cup {General} : Offer(p, q)
    BY <1>1, <1>4, <2>0, <2>4, OfferCases
  <2>5. CASE \/ Disconnect(p) \/ Share(p) \/ Set(p) \/ Use(p) \/ GetEvents(p) \/ ClearEvents(p)
    BY <1>1, <1>4, <2>0, <2>5 DEF Disconnect, Share, Set, Use, GetEvents, ClearEvents, Goto
  <2>6. CASE \/ Retract(p) \/ Expunge(p) \/ (\E ctl \in Controls : SetControl(p, ctl))
    BY <1>1, <1>4, <2>0, <2>6 DEF Retract, Expunge, SetControl, At
  <2> QED BY <2>1, <2>2, <2>3, <2>4, <2>5, <2>6 DEF By
<1> QED BY <1>3, <1>4

\* Two offers that do not meet, whoever comes first.
Strangers(r, s) ==
  Coupling(r) = 1 /\ Coupling(s) = 1 => ~Matches(r, s.off.id, s.acc.id)

LEMMA Symmetric ==
  ASSUME NEW r \in RecordType, Whole(r), NEW s \in RecordType, Whole(s), Strangers(r, s)
  PROVE  Strangers(s, r)
<1> SUFFICES ASSUME Coupling(r) = 1, Coupling(s) = 1, Matches(s, r.off.id, r.acc.id)
             PROVE  FALSE
  BY DEF Strangers
<1>1. ~Matches(r, s.off.id, s.acc.id)
  BY DEF Strangers
<1>2. r # NoRecord /\ s # NoRecord
  BY NoRecordFacts
<1>3. r.off.id \in Procs /\ s.off.id \in Procs
  BY <1>2 DEF Whole
<1> QED BY <1>1, <1>3, Distinct DEF Matches

\* A record whose partner waits for p, who does not offer, meets no offer.
LEMMA WaitsForNobody ==
  ASSUME NEW r \in RecordType, Whole(r), NEW s \in RecordType, Whole(s), NEW p \in Procs,
         r.acc.id \in {p, NoAP}, r.off.id # p, s.off.id # p
  PROVE  Strangers(r, s) /\ Strangers(s, r)
<1>1. Strangers(r, s)
  <2> SUFFICES ASSUME Coupling(r) = 1, Coupling(s) = 1, Matches(r, s.off.id, s.acc.id)
               PROVE  FALSE
    BY DEF Strangers
  <2>1. s.off.id \in Procs
    BY NoRecordFacts DEF Whole
  <2> QED BY <2>1, Distinct DEF Matches
<1> QED BY <1>1, Symmetric

LEMMA OffersKept ==
  ASSUME IInv, NEW p \in Procs, By(p)
  PROVE  OffersMeet'
<1> DEFINE Waits(k) == Coupling(db'[k]) = 1 /\ k \in {sym'[db'[k].off.id], reply'[db'[k].off.id]}
<1> SUFFICES ASSUME NEW j \in Key, NEW k \in Key, j # k, Waits(j), Waits(k)
             PROVE  Strangers(db'[j], db'[k])
  BY DEF OffersMeet, Waiting, Strangers, Key
<1>1. \A i, n \in Key : i # n /\ Waiting(i) /\ Waiting(n) => Strangers(db[i], db[n])
  BY DEF IInv, OffersMeet, Strangers
<1>2. \A i \in Key : /\ db[i] \in RecordType /\ Whole(db[i])
                     /\ db'[i] \in RecordType /\ Whole(db'[i])
  BY Typing, Requests DEF Request, Effect
<1>3. Coupling(db'[j]) = 1 /\ Coupling(db'[k]) = 1 /\ db'[j] # NoRecord /\ db'[k] # NoRecord
  BY NoRecordFacts
<1>4. db'[j].off.id \in Procs /\ db'[k].off.id \in Procs
  BY <1>2, <1>3 DEF Whole
<1>5. j # 0 /\ k # 0
  BY Typing
<1>6. CASE Quiet(p)
  <2>1. ASSUME NEW i \in {j, k}
        PROVE  Waiting(i) /\ db'[i].off.id = db[i].off.id /\ db'[i].acc.id = db[i].acc.id
    <3>1. db'[i].off.id = db[i].off.id /\ db'[i].acc.id = db[i].acc.id
          /\ Coupling(db'[i]) = Coupling(db[i])
      BY <2>1, <1>6 DEF Quiet, Alike
    <3>2. i \in {sym'[db'[i].off.id], reply'[db'[i].off.id]} \ {0} /\ db'[i].off.id \in Procs
      BY <2>1, <1>4, <1>5
    <3>3. i \in {sym[db[i].off.id], reply[db[i].off.id]}
      BY <3>1, <3>2, <1>6 DEF Quiet
    <3> QED BY <3>1, <3>3, <1>3, <2>1 DEF Waiting
  <2>2. Strangers(db[j], db[k]) /\ Coupling(db[j]) = 1 /\ Coupling(db[k]) = 1
    BY <1>1, <2>1 DEF Waiting
  <2> QED BY <2>1, <2>2 DEF Strangers, Matches
<1>7. CASE Retract(p) \/ Disconnect(p)
  <2>1. sym'[p] = 0 /\ reply'[p] = 0 /\ Alone(p)
        /\ \A i \in Key : Deserted(db[i], db'[i], p) \/ db'[i] = db[i]
    BY <1>7, LeavingRequest
  <2>2. db'[j].off.id # p /\ db'[k].off.id # p
    BY <1>5, <2>1
  <2>3. CASE db'[j] = db[j] /\ db'[k] = db[k]
    <3>1. Waiting(j) /\ Waiting(k)
      BY <2>1, <2>2, <2>3, <1>4 DEF Waiting, Alone
    <3> QED BY <3>1, <2>3, <1>1
  <2>4. CASE db'[j] # db[j]
    <3>1. db'[j].acc.id \in {p, NoAP}
      BY <2>1, <2>4, <1>3 DEF Deserted
    <3> QED BY <3>1, <2>2, <1>2, WaitsForNobody
  <2>5. CASE db'[k] # db[k]
    <3>1. db'[k].acc.id \in {p, NoAP}
      BY <2>1, <2>5, <1>3 DEF Deserted
    <3> QED BY <3>1, <2>2, <1>2, WaitsForNobody
  <2> QED BY <2>3, <2>4, <2>5
<1>8. ASSUME NEW q \in (Procs \ {p}) \cup {General}, Offer(p, q)
      PROVE  Strangers(db'[j], db'[k])
  <2>1. Alone(p) /\ sym' = sym /\ sym[p] = 0
    BY <1>8, OfferCases
  <2>2. CASE \E n \in Key : Meets(p, q, n)
    <3>1. PICK n \in Key : Meets(p, q, n)
      BY <2>2
    <3>2. Coupling(db'[n]) = 2 /\ \A i \in Key \ {n} : db'[i] = db[i]
      BY <3>1, MeetsRequest
    <3>3. db'[j] = db[j] /\ db'[k] = db[k] /\ n \notin {j, k}
      BY <3>2, <1>3
    <3>4. \A x \in Procs : \A i \in {j, k} : i \in {sym'[x], reply'[x]} => i \in {sym[x], reply[x]}
      BY <3>1, <3>3, <2>1, <1>5, Typing DEF Meets, Alone
    <3>5. Waiting(j) /\ Waiting(k)
      BY <3>3, <3>4, <1>4 DEF Waiting
    <3> QED BY <3>3, <3>5, <1>1
  <2>3. CASE Makes(p, q)
    <3>1. /\ seq + 1 \in Key /\ db'[seq + 1].off.id = p /\ db'[seq + 1].acc.id = q
          /\ \A i \in Key \ {seq + 1} : db'[i] = db[i]
      BY <2>3, MakesRequest
    <3>2. reply'[p] = seq + 1
      BY <2>3, Typing DEF Makes
    <3>3. \A i \in Key \ {seq + 1} : Waits(i) => Waiting(i)
      <4> SUFFICES ASSUME NEW i \in Key \ {seq + 1}, Waits(i)
                   PROVE  Waiting(i)
        OBVIOUS
      <4>1. i # 0 /\ db'[i] = db[i] /\ db[i] # NoRecord
        BY <3>1, NoRecordFacts, Typing
      <4>2. db[i].off.id \in Procs
        BY <4>1, <1>2 DEF Whole
      <4>3. db[i].off.id # p
        BY <4>1, <3>2, <2>1
      <4> QED BY <4>1, <4>2, <4>3, <2>1 DEF Waiting, Alone
    <3>4. \A i \in Key : ~Matches(db[i], p, q)
      BY <2>3 DEF Makes
    <3>5. CASE k = seq + 1
      <4>1. db'[j] = db[j] /\ db'[k].off.id = p /\ db'[k].acc.id = q
        BY <3>1, <3>5
      <4> QED BY <4>1, <3>4 DEF Strangers
    <3>6. CASE j = seq + 1
      <4>1. db'[k] = db[k] /\ db'[j].off.id = p /\ db'[j].acc.id = q
        BY <3>1, <3>6
      <4>2. Strangers(db'[k], db'[j])
        BY <4>1, <3>4 DEF Strangers
      <4> QED BY <4>2, <1>2, Symmetric
    <3>7. CASE k # seq + 1 /\ j # seq + 1
      BY <3>1, <3>3, <3>7, <1>1
    <3> QED BY <3>5, <3>6, <3>7
  <2> QED BY <1>8, <2>2, <2>3, OfferCases
<1> QED BY <1>6, <1>7, <1>8, QuietSteps DEF By

-----------------------------------------------------------------------------
(* The theorems.                                                           *)

LEMMA InitInv == Init => IInv
<1> SUFFICES ASSUME Init PROVE IInv
  OBVIOUS
<1>0. MaxKeys \in Nat
  BY SharedAssumption DEF SharedAssumption
<1>1. \A k \in Key : db[k] = NoRecord /\ value[k] = NoAP /\ party[k] = {}
  BY DEF Init
<1>2. \A p \in Procs : sym[p] = 0 /\ reply[p] = 0 /\ pc[p] = "idle" /\ fresh[p] = FALSE
  BY DEF Init
<1>3. TypeOK
  <2>1. db \in [Key -> RecordType]
    BY NoRecordFacts DEF Init
  <2>2. party \in [Key -> SUBSET Procs]
    BY DEF Init
  <2> QED BY <1>0, <1>1, <2>1, <2>2 DEF Init, TypeOK, RecordType
<1>4. Records /\ Reached /\ Unused /\ StateKnown
  BY <1>1, NoRecordFacts DEF Records, Reached, Unused, StateKnown
<1>5. Places /\ HolderIsPartner /\ PermissionLasts
  BY <1>2 DEF Places, HolderIsPartner, PermissionLasts
<1>6. OffersMeet
  BY <1>1, NoRecordFacts DEF OffersMeet, Waiting
<1> QED BY <1>3, <1>4, <1>5, <1>6 DEF IInv

LEMMA StepIsBy == Step <=> \E p \in Procs : By(p)
  BY DEF Step, By

LEMMA NextInv == IInv /\ [Next]_vars => IInv'
<1> SUFFICES ASSUME IInv, [Next]_vars PROVE IInv'
  OBVIOUS
<1>1. CASE UNCHANGED vars
  BY <1>1 DEF vars, IInv, TypeOK, Records, Reached, Unused, StateKnown, Places, HolderIsPartner,
     PermissionLasts, OffersMeet, Waiting, Mine, Key
<1>2. CASE Next
  <2>1. PICK p \in Procs : By(p)
    BY <1>2, StepIsBy DEF Next
  <2>2. Track
    BY <1>2 DEF Next
  <2> QED BY <2>1, <2>2, TypesKept, RecordsKept, ReachedKept, UnusedKept, StateKept, PlacesKept,
          HoldersKept, PermissionKept, OffersKept DEF IInv
<1> QED BY <1>1, <1>2

LEMMA Invariant == Spec => []IInv
  BY InitInv, NextInv, PTL DEF Spec

\* Every variable has values of its type, and the record of a key is cleared or
\* has an offering partner, however many processors offer, retract, die and
\* come back (Svar_record, Svar_DB_server).
THEOREM TypeCorrect == Spec => []TypeOK
<1>1. IInv => TypeOK
  BY DEF IInv
<1> QED BY <1>1, Invariant, PTL

\* Who holds a key, or has just been given it, is an active partner of its
\* record (Symbol::share_var, Svar_record::retract, close_fd).
THEOREM HoldersArePartners == Spec => []HolderIsPartner
<1>1. IInv => HolderIsPartner
  BY DEF IInv
<1> QED BY <1>1, Invariant, PTL

\* Offers meet: two offers that their makers wait for do not match
\* (match_or_make, retract, close_fd).
THEOREM NoOfferIsMissed == Spec => []OffersMeet
<1>1. IInv => OffersMeet
  BY DEF IInv
<1> QED BY <1>1, Invariant, PTL

\* The answer of may_set() and may_use() stays valid until the access, as long
\* as control vector and partners are those of the time of asking.
THEOREM AnswersStayValid == Spec => []PermissionLasts
<1>1. IInv => PermissionLasts
  BY DEF IInv
<1> QED BY <1>1, Invariant, PTL

\* A record has two parties in its life (match_pending_offer, remove_accepting,
\* remove_offering).
THEOREM NoThirdParty == Spec => []TwoParties
<1>1. IInv => TwoParties
  <2> SUFFICES ASSUME IInv, NEW k \in Key PROVE Cardinality(party[k]) <= 2
    BY DEF TwoParties
  <2>1. PICK a, b : party[k] \subseteq {a, b}
    BY DEF IInv, Records, Bounded
  <2>2. IsFiniteSet({a, b}) /\ Cardinality({a, b}) <= 2
    <3>1. IsFiniteSet({a}) /\ Cardinality({a}) = 1
      BY FS_Singleton
    <3>2. IsFiniteSet({a} \cup {b}) /\ Cardinality({a} \cup {b}) \in {1, 2}
      <4>1. CASE b \in {a}
        <5>1. {a} \cup {b} = {a}
          BY <4>1
        <5> QED BY <5>1, <3>1
      <4>2. CASE b \notin {a}
        BY <4>2, <3>1, FS_AddElement
      <4> QED BY <4>1, <4>2
    <3>3. {a} \cup {b} = {a, b}
      OBVIOUS
    <3> QED BY <3>2, <3>3
  <2>3. Cardinality({a, b}) \in Nat /\ Cardinality(party[k]) \in Nat
        /\ Cardinality(party[k]) <= Cardinality({a, b})
    BY <2>1, <2>2, FS_Subset, FS_CardinalityType
  <2> QED BY <2>2, <2>3
<1> QED BY <1>1, Invariant, PTL

-----------------------------------------------------------------------------
(* Events.                                                                 *)

\* What a processor itself asks for, other than a use, takes no event from it.
LEMMA OwnEvents ==
  ASSUME NEW p \in Procs, NEW r \in RecordType, Whole(r), HasEvents(r, p)
  PROVE  /\ \A ctl \in Controls : p \in Active(r) => HasEvents(Controlled(r, p, ctl), p)
         /\ p \in Active(r) => HasEvents(Refused(r, p), p)
         /\ \A q \in (Procs \ {p}) \cup {General} : ~Matches(r, p, q)
         /\ r # NoRecord
<1>1. r # NoRecord
  BY NoRecordFacts
<1>2. r.off.id # r.acc.id /\ (r.acc.events => r.acc.active)
  BY <1>1 DEF Whole
<1>3. ASSUME NEW ctl \in Controls, p \in Active(r)
      PROVE  HasEvents(Controlled(r, p, ctl), p)
  BY <1>2, <1>3 DEF HasEvents, Controlled, RecordType, PartnerType
<1>4. ASSUME p \in Active(r)
      PROVE  HasEvents(Refused(r, p), p)
  BY <1>2, <1>4 DEF HasEvents, Refused, RecordType, PartnerType
<1>5. ASSUME NEW q \in (Procs \ {p}) \cup {General}, Matches(r, p, q)
      PROVE  FALSE
  <2>1. r.off.id # p
    BY <1>2, <1>5, AcceptedEffect, Distinct DEF Matches
  <2>2. r.acc.active
    BY <2>1, <1>2 DEF HasEvents
  <2>3. Coupling(r) = 2
    BY <2>2, <1>1, PartnersOf
  <2> QED BY <2>3, <1>5 DEF Matches
<1> QED BY <1>1, <1>3, <1>4, <1>5

LEMMA EventsKept ==
  ASSUME IInv, NEW p \in Procs, By(p), NEW x \in Procs, Pending(x), ~Pending(x)'
  PROVE  Set(x) \/ Use(x) \/ ClearEvents(x) \/ Retract(x) \/ Disconnect(x)
<1>1. PICK k \in Key : HasEvents(db[k], x)
  BY DEF Pending
<1>2. ~HasEvents(db'[k], x)
  BY DEF Pending, Key
<1>3. x = p
  BY <1>1, <1>2, Requests DEF Request, Effect, Reminds
<1>4. db[k] \in RecordType /\ Whole(db[k]) /\ db \in [Key -> RecordType]
  BY Typing
<1>5. ~(Connect(p) \/ Share(p) \/ Expunge(p) \/ GetEvents(p))
  BY <1>1, <1>2 DEF Connect, Share, Expunge, GetEvents
<1>6. ASSUME NEW ctl \in Controls, SetControl(p, ctl)
      PROVE  FALSE
  <2>1. sym[p] # 0 /\ db' = [db EXCEPT ![sym[p]] = Controlled(db[sym[p]], p, ctl)]
    BY <1>6 DEF SetControl
  <2>2. db'[k] = IF k = sym[p] THEN Controlled(db[k], p, ctl) ELSE db[k]
    BY <2>1, <1>4
  <2>3. k = sym[p] /\ p \in Active(db[k])
    BY <2>1, <2>2, <1>1, <1>2, Typing
  <2> QED BY <2>2, <2>3, <1>1, <1>2, <1>3, <1>4, OwnEvents
<1>7. ASSUME MaySet(p) \/ MayUse(p)
      PROVE  FALSE
  <2>1. sym[p] # 0 /\ (db' = db \/ db' = [db EXCEPT ![sym[p]] = Refused(db[sym[p]], p)])
    BY <1>7 DEF MaySet, MayUse, Mine
  <2>2. db' = db \/ db'[k] = IF k = sym[p] THEN Refused(db[k], p) ELSE db[k]
    BY <2>1, <1>4
  <2>3. k = sym[p] /\ p \in Active(db[k]) /\ db' # db
    BY <2>1, <2>2, <1>1, <1>2, Typing
  <2> QED BY <2>2, <2>3, <1>1, <1>2, <1>3, <1>4, OwnEvents
<1>8. ASSUME NEW q \in (Procs \ {p}) \cup {General}, Offer(p, q)
      PROVE  FALSE
  <2>1. db[k] # NoRecord /\ ~Matches(db[k], p, q)
    BY <1>1, <1>3, <1>4, OwnEvents
  <2>2. ASSUME NEW j \in Key, Meets(p, q, j)
        PROVE  FALSE
    <3>1. j # k
      BY <2>1, <2>2 DEF Meets
    <3>2. db'[k] = db[k]
      BY <2>2, <3>1, MeetsRequest
    <3> QED BY <3>2, <1>1, <1>2
  <2>3. ASSUME Makes(p, q)
        PROVE  FALSE
    <3>1. k # seq + 1
      BY <2>1, <2>3, MakesRequest
    <3>2. db'[k] = db[k]
      BY <2>3, <3>1, MakesRequest
    <3> QED BY <3>2, <1>1, <1>2
  <2> QED BY <1>8, <2>2, <2>3, OfferCases
<1> QED BY <1>3, <1>5, <1>6, <1>7, <1>8 DEF By

\* Events wait for their owner: what another processor does never takes an
\* event away (clear_all_events, set_state, remove_offering).
THEOREM EventsWait == Spec => EventsAreKept
<1> DEFINE Kept == \A p \in Procs :
                     Pending(p) /\ ~Pending(p)' =>
                       \/ Set(p) \/ Use(p) \/ ClearEvents(p) \/ Retract(p) \/ Disconnect(p)
<1>1. IInv /\ [Next]_vars => [Kept]_vars
  <2> SUFFICES ASSUME IInv, Next PROVE Kept
    OBVIOUS
  <2>1. PICK p \in Procs : By(p)
    BY StepIsBy DEF Next
  <2> QED BY <2>1, EventsKept
<1>2. EventsAreKept <=> [][Kept]_vars
  BY DEF EventsAreKept
<1> HIDE DEF Kept
<1> QED BY <1>1, <1>2, Invariant, PTL DEF Spec
=============================================================================
