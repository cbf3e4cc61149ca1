---------------------------- MODULE MCWaveControl ----------------------------
(***************************************************************************)
(* Model-checking instances of WaveControl.  The main one has two waves of *)
(* one queue running a four-instruction program with breakpoints on the    *)
(* plain instruction, the branch and the s_endpgm, so that both waves can  *)
(* share a displaced-stepping buffer, both the copied and the simulated    *)
(* displaced step happen, and a displaced s_endpgm is terminated.  The     *)
(* other instances are a two-queue one and a one-wave one for exceptions.  *)
(***************************************************************************)
EXTENDS WaveControl, TLC

CONSTANTS w1, w2, q1, q2

MCWaves == {w1, w2}
MCQueues == {q1}
MCQueueOf == [w \in MCWaves |-> q1]
\* 1: plain, 2: conditional branch back to 1 or on to 3, 3: a load that
\* may fault, 4: s_endpgm.
MCCode == <<"plain", "branch", "load", "endpgm">>
MCBranchTargets == [p \in 1..4 |-> IF p = 2 THEN {1, 3} ELSE {}]
MCBreakpoints == {1, 2, 4}
MCScratch == {10, 20}
MCEventIds == 1..5
MCResumeExceptions == {{}, {"WAVE_MEMORY_VIOLATION"}}
MCNoExceptions == {{}}
\* A shorter program for the two-queue model: 1: plain, 2: a load that may
\* fault, 3: s_endpgm; a breakpoint on the first instruction.
MCCode2 == <<"plain", "load", "endpgm">>
MCBranchTargets2 == [p \in 1..3 |-> {}]
MCBreakpoints2 == {1}

\* The two waves of a queue play symmetric roles.
WaveSymmetry == Permutations(MCWaves)

\* Two waves on two queues of the same agent, one wave each.
MCQueues2 == {q1, q2}
MCQueueOf2 == [w \in MCWaves |-> IF w = w1 THEN q1 ELSE q2]

\* One wave on one queue, for the resumes that pass exceptions on.
MCWaves1 == {w1}
MCQueueOf1 == [w \in MCWaves1 |-> q1]
MCEventIds1 == 1..3
=============================================================================
