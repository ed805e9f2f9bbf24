---------------------------- MODULE StepperServer ----------------------------
(***************************************************************************)
(* The OPC-UA server of the stepper motor (icicle-motor-server.py): a loop *)
(* that reads its nodes, corrects them, and runs the motor while a client  *)
(* asks for it.  Clients write the nodes at any time they are served: while*)
(* the loop sleeps and, with local, in every await on the server's nodes.  *)
(* While the script moves the motor nobody is served.                      *)
(*                                                                         *)
(* As in VideoProxy a start is the number of the write that gave it, 0 for *)
(* none, and a value carries the number of its write, as history.          *)
(***************************************************************************)
EXTENDS Integers

CONSTANTS
    Inputs,         \* node -> what clients write there
    MaxWrites       \* bound: writes of the clients

VARIABLES
    local, polite,  \* never change; polite: a start waits for the one before
    nodes, copy,    \* the nodes, and the loop's copy of them
    spc,            \* the next await of the loop
    run,            \* history: what the motor did last
    given,         \* the clients' writes so far
    wanted           \* history: the numbers of the values at each start

vars == <<local, polite, nodes, copy, spc, run, given, wanted>>

Value == {"dir", "rotation", "revolutions"}
max == [dir |-> 1, rotation |-> 3, revolutions |-> 100]
default == [dir |-> 0, rotation |-> 1, revolutions |-> 0]
Fresh == [start |-> 0,
          value |-> [v \in Value |-> [ver |-> 0, is |-> default[v]]]]

Init ==
    /\ local \in BOOLEAN /\ polite \in BOOLEAN
    /\ nodes = Fresh /\ copy = Fresh
    /\ spc = "sleep" /\ given = 0
    /\ run = [by |-> 0, turned |-> 0, ver |-> [v \in Value |-> 0]]
    /\ wanted = [n \in 1..MaxWrites |-> [v \in Value |-> 0]]

Serves == local \/ spc = "sleep"

Write ==
    /\ Serves /\ given < MaxWrites
    /\ given' = given + 1
    /\ \/ /\ \E v \in Value : \E x \in Inputs[v] :
               nodes' = [nodes EXCEPT !.value[v] = [ver |-> given + 1, is |-> x]]
          /\ UNCHANGED wanted
       \/ /\ polite => nodes.start = 0
          /\ nodes' = [nodes EXCEPT !.start = given + 1]
          /\ wanted' = [wanted EXCEPT ![given + 1] = [v \in Value |-> nodes.value[v].ver]]
    /\ UNCHANGED <<local, polite, copy, spc, run>>

Read(at, v, next) ==
    /\ spc = at
    /\ copy' = [copy EXCEPT !.value[v] = nodes.value[v]]
    /\ spc' = next
    /\ UNCHANGED <<local, polite, nodes, run, given, wanted>>

(* Mutant: the values of the loop before are used.                         *)
ReadDirNot ==
    /\ spc = "dir"
    /\ spc' = "revolutions"
    /\ UNCHANGED <<local, polite, nodes, copy, run, given, wanted>>

ReadStart ==
    /\ spc = "sleep"
    /\ copy' = [copy EXCEPT !.start = nodes.start]
    /\ spc' = "dir"
    /\ UNCHANGED <<local, polite, nodes, run, given, wanted>>
ReadDir == Read("dir", "dir", "revolutions")
ReadRevolutions == Read("revolutions", "revolutions", "rotation")
ReadRotation == Read("rotation", "rotation", "correct")

(* Only what is too large is corrected, in the node and in the copy, one   *)
(* after the other.                                                        *)
TooLarge == {v \in Value : copy.value[v].is > max[v]}
First == IF "dir" \in TooLarge THEN "dir"
         ELSE IF "revolutions" \in TooLarge THEN "revolutions" ELSE "rotation"

Correct ==
    /\ spc = "correct" /\ TooLarge # {}
    /\ nodes' = [nodes EXCEPT !.value[First] = [copy.value[First] EXCEPT !.is = default[First]]]
    /\ copy' = [copy EXCEPT !.value[First].is = default[First]]
    /\ UNCHANGED <<local, polite, spc, run, given, wanted>>

Decide ==
    /\ spc = "correct" /\ TooLarge = {}
    /\ spc' = IF copy.start # 0 THEN "run" ELSE "sleep"
    /\ UNCHANGED <<local, polite, nodes, copy, run, given, wanted>>

(* A number of revolutions, or else the part of one that is wanted for.     *)
Steps(rotation, revolutions) ==
    IF revolutions > 0 THEN 50 * revolutions
    ELSE CASE rotation = 3 -> 12 [] rotation = 2 -> 24 [] OTHER -> 50

(* opcua_run_motor.sh: four patterns of the coils a step; any direction    *)
(* but 0 is anticlockwise.  The quarter turns, positive if clockwise.      *)
Turned(steps, dir) == IF dir = 0 THEN 4 * steps ELSE -4 * steps

RunMotor ==
    /\ spc = "run"
    /\ LET value == copy.value
           steps == Steps(value["rotation"].is, value["revolutions"].is)
       IN  run' = [by |-> copy.start, turned |-> Turned(steps, value["dir"].is),
                   ver |-> [v \in Value |-> value[v].ver]]
    /\ spc' = "resetRotation"
    /\ UNCHANGED <<local, polite, nodes, copy, given, wanted>>

(* Mutant: the start stays set.                                            *)
ResetStartNot ==
    /\ spc = "resetStart"
    /\ spc' = "sleep"
    /\ UNCHANGED <<local, polite, nodes, copy, run, given, wanted>>

Reset(v) == nodes' = [nodes EXCEPT !.value[v] = [ver |-> 0, is |-> default[v]]]
ResetRotation ==
    /\ spc = "resetRotation"
    /\ Reset("rotation")
    /\ spc' = "resetRevolutions"
    /\ UNCHANGED <<local, polite, copy, run, given, wanted>>
ResetRevolutions ==
    /\ spc = "resetRevolutions"
    /\ Reset("revolutions")
    /\ spc' = "resetStart"
    /\ UNCHANGED <<local, polite, copy, run, given, wanted>>
ResetStart ==
    /\ spc = "resetStart"
    /\ nodes' = [nodes EXCEPT !.start = 0]
    /\ spc' = "sleep"
    /\ UNCHANGED <<local, polite, copy, run, given, wanted>>

Loop == \/ ReadStart \/ ReadDir \/ ReadRevolutions \/ ReadRotation
        \/ Correct \/ Decide \/ RunMotor
        \/ ResetRotation \/ ResetRevolutions \/ ResetStart
Next == Write \/ Loop
Spec == Init /\ [][Next]_vars /\ WF_vars(Loop)

-----------------------------------------------------------------------------
(* Unless awaits on own nodes switch, a start moves the motor once and by  *)
(* the values the client had seen written, or newer ones, and no start is  *)
(* reset that was not carried out.                                         *)
RunFresh ==
    /\ spc = "run" => copy.start # run.by
    /\ ~local /\ run.by # 0 => \A v \in Value : run.ver[v] >= wanted[run.by][v]
    /\ ~local /\ spc = "resetStart" => run.by = nodes.start

(* Every start is carried out and reset in the end.                        *)
Started == ~local /\ nodes.start # 0
StartServed == Started ~> nodes.start = 0
=============================================================================
