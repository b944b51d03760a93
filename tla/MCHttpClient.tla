----------------------------- MODULE MCHttpClient -----------------------------
(***************************************************************************)
(* Instances of HttpClient for TLC.                                         *)
(***************************************************************************)
EXTENDS HttpClient

AllOperations == {"SetProxy", "Do", "DoWithProxy", "SetFollowRedirect"}

AnyOption == [factory : BOOLEAN, customRedirect : BOOLEAN,
              catchPanics : BOOLEAN, nilHeaders : BOOLEAN, nilConnect : BOOLEAN]

\* Neither a factory nor nil headers, and panics are recovered.
Careful == {o \in AnyOption : ~o.factory /\ o.customRedirect
                             /\ o.catchPanics /\ ~o.nilHeaders}

=============================================================================
