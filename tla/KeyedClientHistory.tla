------------------------- MODULE KeyedClientHistory -------------------------
(***************************************************************************)
(* KeyedClient.tla with history variables that remember, for each find,    *)
(* what happened to each key while it ran, and, for each key, what its     *)
(* provider answered.                                                      *)
(***************************************************************************)
EXTENDS KeyedClient, FiniteSets

(* An event loop runs finitely many finds at a time.                       *)
ASSUME FiniteCalls == IsFiniteSet(Calls)

VARIABLES reached,     \* reached[c]: entries find c tried itself, and those
                       \* that were dead or parked at some moment of c
          touched,     \* touched[c]: the same, and those handed to any other
                       \* find during c
          rejections,  \* rejections[e]: "dead" replies for e in this process
          answered,    \* answered[e]: misses and hits received with e
          unlogged     \* unlogged[e]: answers whose row was not written

history == <<reached, touched, rejections, answered, unlogged>>

vars == <<clientVars, history>>

PerEntry == [Entries -> Nat]

TypeOK ==
    /\ ClientTypeOK
    /\ reached \in [Calls -> SUBSET Entries]
    /\ touched \in [Calls -> SUBSET Entries]
    /\ rejections \in PerEntry /\ answered \in PerEntry /\ unlogged \in PerEntry

Init ==
    /\ ClientInit
    /\ reached = [c \in Calls |-> {}]
    /\ touched = [c \in Calls |-> {}]
    /\ rejections = [e \in Entries |-> 0]
    /\ answered = [e \in Entries |-> 0]
    /\ unlogged = [e \in Entries |-> 0]

-----------------------------------------------------------------------------
(* Bookkeeping *)

(* The entry a step handed to find c, if it handed it one.                 *)
HandedTo(c) ==
    IF call'[c].pc = "wire" /\ call'[c] # call[c] THEN {call'[c].entry} ELSE {}

HandedOut == UNION {HandedTo(c) : c \in Calls}

UnusableNow == {e \in Entries : ~Usable(pool, now, e)}

(* Every find that runs, and those that start in this step, sees the step. *)
Watch(starting) ==
    /\ reached' = [c \in Calls |->
          CASE c \in starting -> UnusableNow' \cup HandedTo(c)
            [] c \notin starting /\ InFlight(c) ->
                  reached[c] \cup UnusableNow' \cup HandedTo(c)
            [] OTHER -> reached[c]]
    /\ touched' = [c \in Calls |->
          CASE c \in starting -> UnusableNow' \cup HandedOut
            [] c \notin starting /\ InFlight(c) ->
                  touched[c] \cup UnusableNow' \cup HandedOut
            [] OTHER -> touched[c]]

Counted(count, e) == [count EXCEPT ![e] = @ + 1]

Begins(c) ==
    /\ Begin(c) \/ BeginBlank(c)
    /\ Watch({c})
    /\ UNCHANGED <<rejections, answered, unlogged>>

Rotates(c, f) ==
    /\ Rotate(c, f)
    /\ Watch({})
    /\ rejections' = IF f.kind = "dead"
                     THEN Counted(rejections, call[c].entry) ELSE rejections
    /\ UNCHANGED <<answered, unlogged>>

Answers(c, f) ==
    /\ Answer(c, f)
    /\ Watch({})
    /\ answered' = Counted(answered, call[c].entry)
    /\ UNCHANGED <<rejections, unlogged>>

Logs(c, written) ==
    /\ LogUsage(c, written)
    /\ Watch({})
    /\ unlogged' = IF written THEN unlogged ELSE Counted(unlogged, call[c].entry)
    /\ UNCHANGED <<rejections, answered>>

Passes ==
    /\ Tick
    /\ Watch({})
    /\ UNCHANGED <<rejections, answered, unlogged>>

WaitingForRow(e) == {c \in Calls : call[c].pc = "log" /\ call[c].entry = e}

Restarts ==
    /\ Restart
    /\ reached' = [c \in Calls |-> {}]
    /\ touched' = [c \in Calls |-> {}]
    /\ rejections' = [e \in Entries |-> 0]
    /\ unlogged' = [e \in Entries |->
                       unlogged[e] + Cardinality(WaitingForRow(e))]
    /\ UNCHANGED answered

Replied(c) == \E f \in Effects : Rotates(c, f) \/ Answers(c, f)

Logged(c) == \E written \in BOOLEAN : Logs(c, written)

Next ==
    \/ \E c \in Calls : Begins(c) \/ Replied(c) \/ Logged(c)
    \/ Passes
    \/ Restarts

Spec == Init /\ [][Next]_vars

-----------------------------------------------------------------------------
(* Properties *)

(* When a find raises ProviderUnavailableError, no key stood idle and      *)
(* healthy all through it: each was, at some moment of that find, dead or  *)
(* parked, or was handed to this find or to one that overlapped it         *)
(* (prospeo.py:124-137, 223-225).                                          *)
NoKeyOverlooked ==
    \A c \in Calls : call[c].answer = "unavailable" => touched[c] = Entries

(* What the docstring of find() says of ProviderUnavailableError           *)
(* (prospeo.py:98-101): every key was exhausted or dead, or this find      *)
(* tried it and failed.  True of finds that do not overlap.                *)
EveryKeyTried ==
    \A c \in Calls : call[c].answer = "unavailable" => reached[c] = Entries

(* An unusable key costs at most one probe for each find that can overlap  *)
(* another, for the life of the process, where apollo/client.py:10-15 says *)
(* exactly one (apollo/client.py:157-168).                                 *)
ProbesBounded == \A e \in Entries : rejections[e] <= Cardinality(Calls)

(* Every answer a provider gave, and no rotated call, has one usage row,   *)
(* or will get one, unless its write failed or the process ended first     *)
(* (prospeo.py:152-183, 200-211; finder.py:166-198).                       *)
UsageAccountsForAnswers ==
    \A e \in Entries :
        answered[e] = usage[e].rows + unlogged[e] + Cardinality(WaitingForRow(e))

(* No reply sends a find round again: whatever it meets and whatever the   *)
(* others do to the pool, each of its steps ends it or brings it nearer    *)
(* its end (prospeo.py:124-225).                                           *)
StepsLeft(c) == IF call[c].pc = "wire" THEN call[c].left + 1 ELSE 0

FindsWindDown ==
    [][\A c \in Calls :
          InFlight(c) /\ call'[c] # call[c] =>
              ~InFlight(c)' \/ StepsLeft(c)' < StepsLeft(c)]_vars
=============================================================================
