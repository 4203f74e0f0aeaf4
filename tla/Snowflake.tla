------------------------------- MODULE Snowflake -------------------------------
(***************************************************************************)
(* pkg/utils/snowflake.go: the generator of ids of a process, in use by    *)
(* every request and task of it.  NextVal holds a mutex throughout and     *)
(* reads the clock of the machine, which may be set back.                  *)
(*                                                                         *)
(* Time is in milliseconds since the epoch of the code.  An id is the pair *)
(* of the fields that change, <<time, sequence>>; the device of the process*)
(* is a constant, and the fields have bits of their own.                   *)
(***************************************************************************)
EXTENDS Integers

CONSTANTS
    SequenceMask,    \* the largest sequence (4095)
    TimestampMax,    \* the largest time an id can hold
    Clock            \* the times the clock may show, bounds the model

ASSUME SnowflakeAssumption ==
    /\ SequenceMask \in Nat
    /\ TimestampMax \in Nat
    /\ Clock \subseteq Nat

VARIABLES
    clock,           \* the clock of the machine
    timestamp,       \* the time of the last id; -1 stands for the unset field
    sequence,        \* the sequence of the last id
    spinning,        \* a caller waits for the next millisecond with the mutex held
    issued,          \* history: ids handed out, by this process and those before it
    repeated,        \* history: ids handed out more than once
    revisited        \* history: times the clock or a new process has come to again

snowflakeVars == <<clock, timestamp, sequence, spinning, issued, repeated, revisited>>

Unset == -1

SnowflakeInit ==
    /\ clock \in Clock
    /\ timestamp = Unset /\ sequence = 0 /\ spinning = FALSE
    /\ issued = {} /\ repeated = {} /\ revisited = {}

HandOut(id) ==
    /\ issued' = issued \cup {id}
    /\ repeated' = IF id \in issued THEN repeated \cup {id} ELSE repeated

(* The end of NextVal: an error when the time does not fit, which leaves   *)
(* the new sequence with the old timestamp.                                *)
Finish(seq) ==
    /\ sequence' = seq
    /\ IF clock > TimestampMax
       THEN UNCHANGED <<timestamp, issued, repeated>>
       ELSE timestamp' = clock /\ HandOut(<<clock, seq>>)

(* NextVal in another millisecond than the last one, earlier ones too.     *)
NextValNewTime ==
    /\ ~spinning /\ timestamp # clock
    /\ Finish(0)
    /\ UNCHANGED <<clock, spinning, revisited>>

NextValSameTime ==
    /\ ~spinning /\ timestamp = clock /\ sequence < SequenceMask
    /\ Finish(sequence + 1)
    /\ UNCHANGED <<clock, spinning, revisited>>

(* The sequence wraps and the caller spins until the clock has gone on.    *)
NextValSpins ==
    /\ ~spinning /\ timestamp = clock /\ sequence = SequenceMask
    /\ sequence' = 0 /\ spinning' = TRUE
    /\ UNCHANGED <<clock, timestamp, issued, repeated, revisited>>

(* Mutant of SpinEnds: the loop ends too early.                            *)
SpinEnds_SameTime ==
    /\ spinning /\ clock >= timestamp
    /\ spinning' = FALSE
    /\ Finish(sequence)
    /\ UNCHANGED <<clock, revisited>>

SpinEnds ==
    /\ spinning /\ clock > timestamp
    /\ spinning' = FALSE
    /\ Finish(sequence)
    /\ UNCHANGED <<clock, revisited>>

ClockTicks ==
    /\ clock + 1 \in Clock
    /\ clock' = clock + 1
    /\ UNCHANGED <<timestamp, sequence, spinning, issued, repeated, revisited>>

ClockSetBack(t) ==
    /\ t < clock
    /\ clock' = t /\ revisited' = revisited \cup (t .. clock)
    /\ UNCHANGED <<timestamp, sequence, spinning, issued, repeated>>

(* A new process begins with nothing, perhaps in the same millisecond.     *)
NewSnowflake ==
    /\ timestamp' = Unset /\ sequence' = 0 /\ spinning' = FALSE
    /\ revisited' = revisited \cup {clock}
    /\ UNCHANGED <<clock, issued, repeated>>

SnowflakeNext ==
    \/ NextValNewTime \/ NextValSameTime \/ NextValSpins \/ SpinEnds
    \/ ClockTicks \/ NewSnowflake
    \/ \E t \in Clock : ClockSetBack(t)

SnowflakeSpec == SnowflakeInit /\ [][SnowflakeNext]_snowflakeVars

-----------------------------------------------------------------------------
(* Properties                                                              *)

SnowflakeTypeOK ==
    /\ clock \in Clock
    /\ timestamp \in Nat \cup {Unset}
    /\ sequence \in 0 .. SequenceMask
    /\ spinning \in BOOLEAN
    /\ issued \subseteq (0 .. TimestampMax) \X (0 .. SequenceMask)
    /\ repeated \subseteq issued
    /\ revisited \subseteq Nat

(* An id is handed out twice only if its millisecond was lived through     *)
(* twice: the clock was set back to it or past it, or the process was      *)
(* started anew within it (snowflake.go:69-89).                            *)
RepeatsExplained == \A id \in repeated : id[1] \in revisited

=============================================================================
