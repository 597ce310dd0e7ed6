------------------------------ MODULE MCSession ------------------------------
(***************************************************************************)
(* Instances of Session for TLC: the settings of its runs.                 *)
(***************************************************************************)
EXTENDS Session

With(callbacks, multi, allThreads) ==
    [callbacks |-> callbacks, multi |-> multi, allThreads |-> allThreads]

\* One callback at most, on older and newer versions of Python; a single
\* profiled thread where profile functions belong to threads.
OneCallback ==
    {With({"name"}, TRUE, FALSE), With({"tag"}, TRUE, TRUE),
     With({}, TRUE, TRUE), With({}, FALSE, FALSE)}

EveryCallback == {With({"id", "name", "tag"}, TRUE, FALSE)}
NameAndTag == {With({"name", "tag"}, TRUE, FALSE)}
=============================================================================
