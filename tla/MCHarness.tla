----------------------------- MODULE MCHarness -----------------------------
(***************************************************************************)
(* Instances of the Harness for TLC.  Two hosts (the test cases that bind *)
(* hosts use hosts[0] and hosts[1]); two payload files, so that a hash     *)
(* mismatch can come before and after a match in one run().               *)
(***************************************************************************)
EXTENDS Harness

CONSTANTS h1, h2

MCHosts == <<h1, h2>>
MCPayloads == <<"pay1", "pay2">>

\* Every kind of test case, the file transfers last.
MCTestsAll == <<"FakeTestFailed", "ConnectionTest", "UpdateSoftware",
                "SimplePing", "FakeTestSuccessful", "PoettnerReport",
                "SimpleFileTransfer", "WiredFileTransfer",
                "EpidemicFileTransfer", "VPNFileTransfer">>

\* The cases that reconfigure the hosts, one after the other.
MCTestsRemote == <<"SimplePing", "SimpleFileTransfer">>

\* A single transfer case.
MCTestsTransfer == <<"SimpleFileTransfer">>

MCTestsUpdate == <<"UpdateSoftware", "FakeTestSuccessful">>

AllFaults == {"connect", "lost", "command", "timeout"}
\* A connection lost mid-command, and a receiver that gives up too early.
LostAndTimeout == {"lost", "timeout"}
NoResidue == {}
=============================================================================
