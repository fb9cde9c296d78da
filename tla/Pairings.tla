-------------------------------- MODULE Pairings --------------------------------
(***************************************************************************)
(* pairings/service.py: a device asks for a code, a user types it, the     *)
(* device fetches the user's key.  Handlers run in threads, read and write *)
(* in two steps, and the code is unique by a look before the insertion     *)
(* only.  A device stands for one pairing (one device_code).               *)
(***************************************************************************)
CONSTANTS
    Devices,
    Codes,        \* the four-digit codes
    Owners,       \* users
    Nothing

ASSUME PairingsAssumption == Nothing \notin Devices \union Codes \union Owners

VARIABLES
    pairing,      \* per device: its row, or NoRow
    shown,        \* per device: the code on its screen
    asking,       \* per device: where POST /init stands, its code, the rows inserted since its look
    entry,        \* per user: where POST /verify stands, the device in front of them, the row found
    token,        \* per device: the user whose key it was given
    owners        \* the users that exist

pairingVars == <<pairing, shown, asking, entry, token, owners>>

NoRow == [code |-> Nothing, status |-> "none", user |-> Nothing, old |-> FALSE]
NoEntry == [pc |-> "idle", device |-> Nothing, found |-> Nothing]

PairingsInit ==
    /\ pairing = [d \in Devices |-> NoRow]
    /\ shown = [d \in Devices |-> Nothing]
    /\ asking = [d \in Devices |-> [pc |-> "idle", code |-> Nothing, since |-> {}]]
    /\ entry = [u \in Owners |-> NoEntry]
    /\ token = [d \in Devices |-> Nothing]
    /\ owners = Owners

PairingRows ==
    [code : Codes \union {Nothing}, status : {"none", "pending", "linked"},
     user : Owners \union {Nothing}, old : BOOLEAN]

PairingsTypeOK ==
    /\ pairing \in [Devices -> PairingRows]
    /\ shown \in [Devices -> Codes \union {Nothing}]
    /\ asking \in [Devices -> [pc : {"idle", "chosen", "over"}, code : Codes \union {Nothing},
                               since : SUBSET Devices]]
    /\ entry \in [Owners -> [pc : {"idle", "linking"}, device : Devices \union {Nothing},
                             found : Devices \union {Nothing}]]
    /\ token \in [Devices -> Owners \union {Nothing}]
    /\ owners \subseteq Owners

Stored == {d \in Devices : pairing[d] # NoRow}
WithCode(c) == {d \in Stored : pairing[d].code = c}

-------------------------------------------------------------------------------
\* Mutant of FreeCodes: a code that has expired is free.
FreeCodesAmongPending == {c \in Codes : \A d \in WithCode(c) : pairing[d].old}

\* Every row counts, an expired one too; the loop ends only with a code nobody has.
FreeCodes == {c \in Codes : WithCode(c) = {}}

ChooseCode(d) ==
    /\ asking[d].pc = "idle"
    /\ \E c \in FreeCodes : asking' = [asking EXCEPT ![d] = [pc |-> "chosen", code |-> c, since |-> {}]]
    /\ UNCHANGED <<pairing, shown, entry, token, owners>>

\* since is a history variable.
InsertPairing(d) ==
    /\ asking[d].pc = "chosen"
    /\ pairing' = [pairing EXCEPT ![d] = [NoRow EXCEPT !.code = asking[d].code, !.status = "pending"]]
    /\ shown' = [shown EXCEPT ![d] = asking[d].code]
    /\ asking' = [e \in Devices |->
                  IF e = d THEN [asking[d] EXCEPT !.pc = "over"]
                  ELSE IF asking[e].pc = "chosen" THEN [asking[e] EXCEPT !.since = @ \union {d}]
                  ELSE asking[e]]
    /\ UNCHANGED <<entry, token, owners>>

\* Ten minutes are over.
Expires(d) ==
    /\ d \in Stored /\ ~pairing[d].old
    /\ pairing' = [pairing EXCEPT ![d].old = TRUE]
    /\ UNCHANGED <<shown, asking, entry, token, owners>>

\* An expired row is set to EXPIRED, and the exception that follows rolls that back; a linked one
\* gives the key of its user; any other answer carries no key.
Poll(d) ==
    /\ d \in Stored /\ ~pairing[d].old
    /\ pairing[d].status = "linked" /\ pairing[d].user \in owners
    /\ token' = [token EXCEPT ![d] = pairing[d].user]
    /\ UNCHANGED <<pairing, shown, asking, entry, owners>>

\* The user reads the code from a screen.  Of several rows with the code any may come first: no
\* order is asked for.
EnterCode(u, d) ==
    /\ entry[u].pc = "idle" /\ u \in owners /\ shown[d] # Nothing
    /\ \/ WithCode(shown[d]) = {} /\ UNCHANGED entry
       \/ \E f \in WithCode(shown[d]) :
            entry' = [entry EXCEPT ![u] =
                        IF pairing[f].old THEN NoEntry
                        ELSE [pc |-> "linking", device |-> IF d \in Stored THEN d ELSE Nothing,
                              found |-> f]]
    /\ UNCHANGED <<pairing, shown, asking, token, owners>>

\* The row or the user may be gone, which fails the write.  A linked row is linked anew.
Link(u) ==
    /\ entry[u].pc = "linking"
    /\ LET f == entry[u].found IN
       pairing' = IF f \in Stored /\ u \in owners
                  THEN [pairing EXCEPT ![f] = [code |-> @.code, status |-> "linked", user |-> u, old |-> @.old]]
                  ELSE pairing
    /\ entry' = [entry EXCEPT ![u] = NoEntry]
    /\ UNCHANGED <<shown, asking, token, owners>>

\* The hourly job.
CleanUp ==
    /\ \E d \in Stored : pairing[d].old
    /\ pairing' = [d \in Devices |-> IF pairing[d].old THEN NoRow ELSE pairing[d]]
    /\ UNCHANGED <<shown, asking, entry, token, owners>>

\* The rows that are linked to a user go with the user.
DeleteOwner(u) ==
    /\ u \in owners /\ owners' = owners \ {u}
    /\ pairing' = [d \in Devices |-> IF pairing[d].user = u THEN NoRow ELSE pairing[d]]
    /\ UNCHANGED <<shown, asking, entry, token>>

PairingsNext ==
    \/ \E d \in Devices : ChooseCode(d) \/ InsertPairing(d) \/ Expires(d) \/ Poll(d)
    \/ \E u \in Owners : Link(u) \/ DeleteOwner(u) \/ \E d \in Devices : EnterCode(u, d)
    \/ CleanUp

PairingsSpec == PairingsInit /\ [][PairingsNext]_pairingVars

-------------------------------------------------------------------------------
\* One device's row came in between the look and the insertion of the other.
Together(d, f) == f \in asking[d].since \/ d \in asking[f].since

\* The device that is linked by a code is the one the user read it from, unless that one's row was
\* gone by then or the two devices asked for their codes at the same time; a code that has
\* expired and one that is linked still count as taken (service.py:24-53, :57-103).
LinkedAsSeen ==
    [][\A u \in Owners :
         entry[u].pc = "linking" /\ entry'[u].pc = "idle" /\ entry[u].device \in Stored
           => entry[u].found = entry[u].device \/ Together(entry[u].device, entry[u].found)]_pairingVars
===============================================================================
