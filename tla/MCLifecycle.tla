---------------------------- MODULE MCLifecycle ----------------------------
(***************************************************************************)
(* Lifecycle under settings that tell the sinks' rules apart.              *)
(***************************************************************************)
EXTENDS Lifecycle

With(mode, file, console, json, access, echo, echoPool) ==
  [mode |-> mode, file |-> file, consoleLevel |-> console, jsonLevel |-> json,
   fileLevel |-> access, echo |-> echo, echoPool |-> echoPool]

\* Each output mode, with and without files, either level of a stream above
\* the other, and either echo.
SomeSettings ==
  {With("text", TRUE, Error, Info, Error, TRUE, FALSE),
   With("json", FALSE, Error, Info, Info, FALSE, TRUE),
   With("both", FALSE, Info, Error, Info, FALSE, FALSE)}
=============================================================================
