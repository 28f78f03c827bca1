-------------------------- MODULE SharedVariables --------------------------
(***************************************************************************)
(* Variables shared between interpreters: the records that APserver keeps  *)
(* (Svar_record), the requests it serves one at a time (do_signal(), each  *)
(* request done on behalf of the processor at the other end of the         *)
(* connection), and the interpreters, which send one request after the     *)
(* other for []SVO, []SVC, []SVR, []SVE, []EX and for setting and using a  *)
(* shared variable.  An interpreter may die and come back at any time.     *)
(*                                                                         *)
(* All interpreters offer a variable of the same name (other names never   *)
(* match), and only to others.  A value is known by the processor that set *)
(* it, the event bits by whether there are any: []SVE tells no more.       *)
(***************************************************************************)
EXTENDS Naturals, FiniteSets

CONSTANTS
  Procs,    \* the interpreters, processors with numbers >= AP_FIRST_USER
  General,  \* AP_GENERAL: an offer to anybody
  NoAP,     \* NO_AP: no processor
  Controls, \* the control vectors that are given to []SVC
  MaxKeys   \* bound: offers made in the life of one APserver

SharedAssumption ==
  /\ General \notin Procs
  /\ NoAP \notin Procs \cup {General}
  /\ MaxKeys \in Nat
  /\ Controls \subseteq SUBSET {"SET_BY_OFF", "SET_BY_ACC", "USE_BY_OFF", "USE_BY_ACC"}
ASSUME SharedAssumption

VARIABLES
  db,        \* the record of each key (Svar_DB_server::offered_vars)
  seq,       \* the last key that was made
  value,     \* var_values: who set the value of each key last
  connected, \* the processors that are registered
  sym,       \* the key that the symbol of each interpreter holds (0: none)
  pc,        \* where each interpreter is
  reply,     \* the key that MATCH_OR_MAKE has returned to each interpreter
  fresh,     \* history: control and partners are as they were when asked
  party      \* history: the processors that were partners of each key

vars == <<db, seq, value, connected, sym, pc, reply, fresh, party>>

Key == 1 .. MaxKeys
Bits == {"SET_BY_OFF", "SET_BY_ACC", "USE_BY_OFF", "USE_BY_ACC"}
NOT_SHARED == {}
IDLE == {"USE_BY_OFF", "USE_BY_ACC"}
OFF_HAS_SET == {"SET_BY_OFF", "USE_BY_OFF"}
ACC_HAS_SET == {"SET_BY_ACC", "USE_BY_ACC"}

\* Partners and records
NoPartner == [id |-> NoAP, flags |-> {}, events |-> FALSE, active |-> FALSE]
Partner(p) == [id |-> p, flags |-> {}, events |-> FALSE, active |-> TRUE]
NoRecord == [off |-> NoPartner, acc |-> NoPartner, state |-> NOT_SHARED]

Active(r) == { x.id : x \in { y \in {r.off, r.acc} : y.active } }
Coupling(r) == (IF r.off.active THEN 1 ELSE 0) + (IF r.acc.active THEN 1 ELSE 0)
Control(r) == r.off.flags \cup r.acc.flags
Restriction(r) == Control(r) \cap r.state

Mirror(ctl) ==
  LET other == [SET_BY_OFF |-> "SET_BY_ACC", SET_BY_ACC |-> "SET_BY_OFF",
                USE_BY_OFF |-> "USE_BY_ACC", USE_BY_ACC |-> "USE_BY_OFF"]
  IN  { other[b] : b \in ctl }

\* MUTANT: the cleared partner is AP_GENERAL
RemoveAcceptingGeneral(r) == [r EXCEPT !.acc = [NoPartner EXCEPT !.id = General]]

RemoveAccepting(r) == [r EXCEPT !.acc = NoPartner]
\* MUTANT: the events of the accepting partner are not copied
RemoveOfferingEvents(r) == [r EXCEPT !.off = [r.acc EXCEPT !.events = FALSE], !.acc = [NoPartner EXCEPT !.id = r.off.id]]

\* MUTANT: the accepting partner stays where it is
RemoveOfferingOnly(r) == [r EXCEPT !.off = NoPartner]

RemoveOffering(r) == [r EXCEPT !.off = r.acc, !.acc = [NoPartner EXCEPT !.id = r.off.id]]
Cleared(r) == IF Coupling(r) = 0 THEN NoRecord ELSE r

\* Svar_record::retract() by p
Retracted(r, p) ==
  Cleared(IF r.off.id = p THEN RemoveOffering(r)
          ELSE IF r.acc.id = p THEN RemoveAccepting(r) ELSE r)

\* MUTANT: the whole record goes with its first partner
AbandonedAll(r, p) ==
  IF p \in Active(r) THEN NoRecord ELSE r

\* close_fd() for the connection of p
Abandoned(r, p) ==
  LET s == IF r.acc.id = p THEN RemoveAccepting(r) ELSE r
  IN  Cleared(IF s.off.id = p THEN RemoveOffering(s) ELSE s)

\* MUTANT: a general offer does not match
MatchesSpecific(r, p, q) ==
  /\ Coupling(r) = 1
  /\ CASE r.acc.id = General -> q # General /\ r.off.id = q
       [] r.acc.id # General /\ q = General -> FALSE
       [] OTHER -> r.off.id = q /\ r.acc.id = p

\* match_pending_offer(): an offer of p to q meets record r.
Matches(r, p, q) ==
  /\ Coupling(r) = 1
  /\ CASE r.acc.id = General -> q # General /\ r.off.id = q
       [] r.acc.id # General /\ q = General -> r.acc.id = p
       [] OTHER -> r.off.id = q /\ r.acc.id = p

Accepted(r, p) == [r EXCEPT !.acc = Partner(p), !.off.events = TRUE]

\* set_control() by p
Controlled(r, p, ctl) ==
  IF r.off.id = p
  THEN [r EXCEPT !.off.flags = ctl, !.acc.events = @ \/ Coupling(r) = 2]
  ELSE IF r.acc.id = p
  THEN [r EXCEPT !.acc.flags = Mirror(ctl), !.off.events = TRUE]
  ELSE r

\* set_state(): p has set or used the variable.  Both branches inform the
\* offering partner.
AfterSet(r, p) ==
  IF r.off.id = p
  THEN [r EXCEPT !.off.events = "SET_BY_OFF" \in Control(r), !.state = OFF_HAS_SET]
  ELSE IF r.acc.id = p
  THEN [r EXCEPT !.acc.events = FALSE, !.state = ACC_HAS_SET,
                 !.off.events = @ \/ "SET_BY_ACC" \in Control(r)]
  ELSE r

\* MUTANT: reading back makes the variable idle
AfterUseNoReadBack(r, p) ==
  IF r.off.id = p
  THEN IF FALSE
       THEN [r EXCEPT !.off.events = FALSE]
       ELSE [r EXCEPT !.off.events = "USE_BY_OFF" \in Control(r), !.state = IDLE]
  ELSE IF r.acc.id = p
  THEN IF FALSE
       THEN [r EXCEPT !.acc.events = FALSE]
       ELSE [r EXCEPT !.acc.events = FALSE, !.state = IDLE,
                      !.off.events = @ \/ "USE_BY_ACC" \in Control(r)]
  ELSE r

AfterUse(r, p) ==
  IF r.off.id = p
  THEN IF r.state = OFF_HAS_SET
       THEN [r EXCEPT !.off.events = FALSE]
       ELSE [r EXCEPT !.off.events = "USE_BY_OFF" \in Control(r), !.state = IDLE]
  ELSE IF r.acc.id = p
  THEN IF r.state = ACC_HAS_SET
       THEN [r EXCEPT !.acc.events = FALSE]
       ELSE [r EXCEPT !.acc.events = FALSE, !.state = IDLE,
                      !.off.events = @ \/ "USE_BY_ACC" \in Control(r)]
  ELSE r

\* may_set() and may_use(): what the state restricts, and the event that the
\* first attempt leaves with the other partner.
SetRestricted(r, p) ==
  \/ r.off.id = p /\ "SET_BY_OFF" \in Restriction(r)
  \/ r.off.id # p /\ r.acc.id = p /\ "SET_BY_ACC" \in Restriction(r)
UseRestricted(r, p) ==
  \/ r.off.id = p /\ "USE_BY_OFF" \in Restriction(r)
  \/ r.off.id # p /\ r.acc.id = p /\ "USE_BY_ACC" \in Restriction(r)

Refused(r, p) ==
  IF r.off.id = p
  THEN [r EXCEPT !.acc.events = @ \/ r.acc.active]
  ELSE [r EXCEPT !.off.events = @ \/ r.off.active]

HasEvents(r, p) ==
  IF r.off.id = p THEN r.off.events ELSE r.acc.id = p /\ r.acc.events
WithoutEvents(r, p) ==
  IF r.off.id = p THEN [r EXCEPT !.off.events = FALSE]
  ELSE IF r.acc.id = p THEN [r EXCEPT !.acc.events = FALSE]
  ELSE r
Pending(p) == \E k \in Key : HasEvents(db[k], p)

Mine(p) == db[sym[p]]

-----------------------------------------------------------------------------
Init ==
  /\ db = [k \in Key |-> NoRecord]
  /\ seq = 0
  /\ value = [k \in Key |-> NoAP]
  /\ connected = {}
  /\ sym = [p \in Procs |-> 0]
  /\ pc = [p \in Procs |-> "idle"]
  /\ reply = [p \in Procs |-> 0]
  /\ fresh = [p \in Procs |-> FALSE]
  /\ party = [k \in Key |-> {}]

At(p, places) == p \in connected /\ pc[p] \in places
Goto(p, place) == pc' = [pc EXCEPT ![p] = place]

\* REGISTER_PROCESSOR
Connect(p) ==
  /\ p \notin connected
  /\ connected' = connected \cup {p}
  /\ UNCHANGED <<db, seq, value, sym, pc, reply>>

\* The connection of p is closed; APserver exits with its last connection.
Disconnect(p) ==
  /\ p \in connected
  /\ connected' = connected \ {p}
  /\ db' = [k \in Key |-> Abandoned(db[k], p)]
  /\ IF connected = {p}
     THEN seq' = 0 /\ value' = [k \in Key |-> NoAP]
     ELSE UNCHANGED <<seq, value>>
  /\ Goto(p, "idle")
  /\ sym' = [sym EXCEPT ![p] = 0]
  /\ reply' = [reply EXCEPT ![p] = 0]

\* q []SVO 'X': MATCH_OR_MAKE takes the first record that matches, or makes one
Offer(p, q) ==
  LET found == { k \in Key : Matches(db[k], p, q) } IN
  /\ At(p, {"idle"})
  /\ sym[p] = 0
  /\ \/ \E k \in found :
          /\ \A j \in found : k <= j
          /\ db' = [db EXCEPT ![k] = Accepted(@, p)]
          /\ reply' = [reply EXCEPT ![p] = k]
          /\ UNCHANGED seq
     \/ /\ found = {}
        /\ seq < MaxKeys
        /\ seq' = seq + 1
        /\ db' = [db EXCEPT ![seq + 1] = [NoRecord EXCEPT !.off = Partner(p), !.acc.id = q]]
        /\ reply' = [reply EXCEPT ![p] = seq + 1]
  /\ Goto(p, "offered")
  /\ UNCHANGED <<value, connected, sym>>

\* get_coupling() of the key, and share_var() unless there is none; the
\* value of an existing variable is then assigned to the shared one.
Share(p) ==
  /\ At(p, {"offered"})
  /\ IF Coupling(db[reply[p]]) > 0
     THEN /\ sym' = [sym EXCEPT ![p] = reply[p]]
          /\ \E place \in {"idle", "assign"} : Goto(p, place)
     ELSE UNCHANGED sym /\ Goto(p, "idle")
  /\ reply' = [reply EXCEPT ![p] = 0]
  /\ UNCHANGED <<db, seq, value, connected>>

\* ctl []SVC 'X'
SetControl(p, ctl) ==
  /\ At(p, {"idle"})
  /\ sym[p] # 0
  /\ db' = [db EXCEPT ![sym[p]] = Controlled(@, p, ctl)]
  /\ UNCHANGED <<seq, value, connected, sym, pc, reply>>

\* MAY_SET, asked every 10 ms until it is allowed
MaySet(p) ==
  /\ At(p, {"idle", "assign", "wait_set"})
  /\ sym[p] # 0
  /\ IF SetRestricted(Mine(p), p)
     THEN /\ Goto(p, "wait_set")
          /\ db' = IF pc[p] = "wait_set" THEN db
                   ELSE [db EXCEPT ![sym[p]] = Refused(@, p)]
     ELSE Goto(p, "set") /\ UNCHANGED db
  /\ UNCHANGED <<seq, value, connected, sym, reply>>

\* ASSIGN_WSWS_VAR
Set(p) ==
  /\ At(p, {"set"})
  /\ value' = [value EXCEPT ![sym[p]] = p]
  /\ db' = [db EXCEPT ![sym[p]] = AfterSet(@, p)]
  /\ Goto(p, "idle")
  /\ UNCHANGED <<seq, connected, sym, reply>>

\* MAY_USE, asked every 10 ms until it is allowed and there is a value
MayUse(p) ==
  /\ At(p, {"idle", "wait_use"})
  /\ sym[p] # 0
  /\ db' = IF UseRestricted(Mine(p), p) /\ pc[p] # "wait_use"
           THEN [db EXCEPT ![sym[p]] = Refused(@, p)] ELSE db
  /\ IF UseRestricted(Mine(p), p) \/ value[sym[p]] = NoAP
     THEN Goto(p, "wait_use") ELSE Goto(p, "use")
  /\ UNCHANGED <<seq, value, connected, sym, reply>>

\* READ_WSWS_VAR
Use(p) ==
  /\ At(p, {"use"})
  /\ db' = IF value[sym[p]] # NoAP
           THEN [db EXCEPT ![sym[p]] = AfterUse(@, p)] ELSE db
  /\ Goto(p, "idle")
  /\ UNCHANGED <<seq, value, connected, sym, reply>>

\* []SVR 'X'
Retract(p) ==
  /\ At(p, {"idle"})
  /\ sym[p] # 0
  /\ db' = [db EXCEPT ![sym[p]] = Retracted(@, p)]
  /\ sym' = [sym EXCEPT ![p] = 0]
  /\ UNCHANGED <<seq, value, connected, pc, reply>>

\* []EX 'X': the symbol forgets the key, APserver is not told.
Expunge(p) ==
  /\ At(p, {"idle"})
  /\ sym[p] # 0
  /\ sym' = [sym EXCEPT ![p] = 0]
  /\ UNCHANGED <<db, seq, value, connected, pc, reply>>

\* []SVE: GET_EVENTS every 50 ms until there is one or the timer has expired
GetEvents(p) ==
  /\ At(p, {"idle", "poll"})
  /\ IF Pending(p) THEN Goto(p, "clear")
     ELSE \E place \in {"poll", "clear"} : Goto(p, place)
  /\ UNCHANGED <<db, seq, value, connected, sym, reply>>

\* CLEAR_ALL_EVENTS
ClearEvents(p) ==
  /\ At(p, {"clear"})
  /\ db' = [k \in Key |-> WithoutEvents(db[k], p)]
  /\ Goto(p, "idle")
  /\ UNCHANGED <<seq, value, connected, sym, reply>>

Step ==
  \E p \in Procs :
    \/ Connect(p)
    \/ Disconnect(p)
    \/ \E q \in (Procs \ {p}) \cup {General} : Offer(p, q)
    \/ Share(p)
    \/ \E ctl \in Controls : SetControl(p, ctl)
    \/ MaySet(p)
    \/ Set(p)
    \/ MayUse(p)
    \/ Use(p)
    \/ Retract(p)
    \/ Expunge(p)
    \/ GetEvents(p)
    \/ ClearEvents(p)

\* The history variables follow each step.
Terms(r) == <<r.off.id, r.off.flags, r.acc.id, r.acc.flags>>
Track ==
  /\ fresh' = [p \in Procs |->
                 /\ pc'[p] \in {"set", "use"}
                 /\ pc[p] = pc'[p] =>
                      fresh[p] /\ Terms(db'[sym[p]]) = Terms(db[sym[p]])]
  /\ party' = [k \in Key |-> IF db'[k] = NoRecord THEN {}
                             ELSE party[k] \cup Active(db'[k])]

Next == Step /\ Track
Spec == Init /\ [][Next]_vars

-----------------------------------------------------------------------------
PartnerType ==
  [id : Procs \cup {General, NoAP}, flags : SUBSET Bits, events : BOOLEAN, active : BOOLEAN]

\* Every variable has values of its type; the record of a key is cleared or
\* has an offering partner (Svar_record, Svar_partner).
TypeOK ==
  /\ db \in [Key -> [off : PartnerType, acc : PartnerType, state : SUBSET Bits]]
  /\ \A k \in Key : db[k] = NoRecord \/ (db[k].off.active /\ db[k].off.id \in Procs)
  /\ seq \in 0 .. MaxKeys
  /\ value \in [Key -> Procs \cup {NoAP}]
  /\ connected \subseteq Procs
  /\ sym \in [Procs -> 0 .. MaxKeys]
  /\ pc \in [Procs -> {"idle", "offered", "assign", "wait_set", "set",
                       "wait_use", "use", "poll", "clear"}]
  /\ reply \in [Procs -> 0 .. MaxKeys]
  /\ fresh \in [Procs -> BOOLEAN]
  /\ party \in [Key -> SUBSET Procs]

\* An interpreter that holds a key, or has just been given it, is an active
\* partner of that record, whatever its peer does in the meantime: retracts,
\* dies, comes back or forgets the variable (Symbol::share_var,
\* Svar_record::retract, close_fd).
HolderIsPartner ==
  \A p \in Procs : \A k \in {sym[p], reply[p]} \ {0} : p \in Active(db[k])

\* The value of a shared variable is never seen by a third processor: the
\* two that first coupled are the only ones that are ever partners of its
\* record (match_pending_offer, remove_accepting, remove_offering).
TwoParties == \A k \in Key : Cardinality(party[k]) <= 2

\* Offers meet: of two offers that their makers wait for, neither would have
\* matched the other, whoever came first, also after partners retracted or
\* died (match_or_make, retract, close_fd).
Waiting(k) ==
  Coupling(db[k]) = 1 /\ k \in {sym[db[k].off.id], reply[db[k].off.id]}
OffersMeet ==
  \A j, k \in Key :
    j # k /\ Waiting(j) /\ Waiting(k) =>
      ~Matches(db[j], db[k].off.id, db[k].acc.id)

\* May_set() and may_use() are answered in one request and the access is made
\* in another one.  Still an access is never refused in hindsight because of
\* what the other partner set or used in between: as long as control vector
\* and partners are those of the time of asking, it is allowed
\* (assign_shared_variable, resolve_shared_variable, set_state).
PermissionLasts ==
  \A p \in Procs :
    fresh[p] => /\ pc[p] = "set" => ~SetRestricted(Mine(p), p)
                /\ pc[p] = "use" => ~UseRestricted(Mine(p), p)

\* Events wait for their owner: only a processor's own requests, its death or
\* its retraction make its pending events go away (clear_all_events,
\* set_state, remove_offering).
EventsAreKept ==
  [][\A p \in Procs :
       Pending(p) /\ ~Pending(p)' =>
         \/ Set(p) \/ Use(p) \/ ClearEvents(p) \/ Retract(p) \/ Disconnect(p)]_vars

\* A processor is kept from setting a variable only if it was itself the last
\* one to set it: SET_BY_OFF says that the offering processor "can't set
\* (again)", and SET_BY_ACC says so of the accepting one (may_set, retract).
RefusedOnlyAgain ==
  \A p \in Procs :
    sym[p] # 0 /\ SetRestricted(Mine(p), p) => value[sym[p]] = p

\* A partner whose access is restricted informs its peer: when it has set or
\* used the variable, the other partner has an event (set_state).
PeerIsInformed ==
  [][\A p \in Procs :
       LET r == Mine(p)
           first == r.off.id = p
           after == db'[sym[p]]
           restricted ==
             \/ Set(p) /\ (IF first THEN "SET_BY_OFF" ELSE "SET_BY_ACC") \in Control(r)
             \/ /\ Use(p)
                /\ r.state # IF first THEN OFF_HAS_SET ELSE ACC_HAS_SET
                /\ (IF first THEN "USE_BY_OFF" ELSE "USE_BY_ACC") \in Control(r)
       IN  sym[p] # 0 /\ Coupling(r) = 2 /\ restricted =>
             IF first THEN after.acc.events ELSE after.off.events]_vars
=============================================================================
