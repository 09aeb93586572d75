------------------------------ MODULE MCSyncCalls ------------------------------
(****************************************************************************)
(* AtomSync with a memory of what each syncNow was called for.              *)
(****************************************************************************)
EXTENDS AtomSync

VARIABLE asked   \* the events that waited to be merged when the caller called

callVars == <<vars, asked>>

CallsInit == Init /\ asked = [c \in Caller |-> {}]

CallsNext ==
  /\ EditNext
  /\ asked' = [c \in Caller |-> IF c \in waiting' \ waiting THEN Pending ELSE asked[c]]

CallsSpec == CallsInit /\ [][CallsNext]_callVars

\* "Force a poll+merge+commit round; resolves when commits have landed"
\* (pipeline.ts:72): when a call is resolved at an open pipeline, none of the
\* events that waited at the call still waits for its commit.
LandsBeforeReturn ==
  [][\A c \in waiting \ waiting' : restarts' = restarts => asked[c] \cap Pending' = {}]_callVars
=============================================================================
