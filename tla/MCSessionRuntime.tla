-------------------------- MODULE MCSessionRuntime --------------------------
(* The instances of SessionRuntime that one run checks. *)
EXTENDS SessionRuntime

Instance(commands, redirects, endings, fast, probing, early, prompt, live) ==
    [commands |-> commands, redirects |-> redirects, endings |-> endings,
     fast |-> fast, probing |-> probing, early |-> early, prompt |-> prompt,
     live |-> live]

\* Two commands and a redirect at any time, or two redirects, and a force close.
Overlaps ==
    {Instance(2, 1, {"close"}, TRUE, FALSE, TRUE, FALSE, FALSE),
     Instance(1, 2, {"close"}, TRUE, FALSE, FALSE, FALSE, FALSE)}

\* A backend that is probed between commands, and peers that answer.
Probed ==
    {Instance(1, 1, {"drain"}, TRUE, TRUE, FALSE, TRUE, TRUE),
     Instance(1, 0, {"drain", "close"}, TRUE, TRUE, FALSE, TRUE, TRUE),
     Instance(1, 0, {"shutdown"}, TRUE, TRUE, FALSE, TRUE, TRUE)}

\* A redirect, a drain, and peers that answer.
Replied == {Instance(2, 1, {"drain"}, TRUE, FALSE, FALSE, TRUE, TRUE)}

\* Peers that may stop talking, and every order to end.
Ended ==
    {Instance(1, 1, {"drain", "close"}, TRUE, FALSE, FALSE, FALSE, TRUE),
     Instance(1, 1, {"shutdown"}, TRUE, FALSE, FALSE, FALSE, TRUE),
     Instance(1, 0, {"drain", "shutdown"}, TRUE, FALSE, FALSE, FALSE, TRUE)}

SessionInstances == Overlaps \cup Probed \cup Replied \cup Ended

\* A redirect that comes before the session is authenticated.
EarlyBegin == {Instance(2, 1, {}, FALSE, FALSE, TRUE, TRUE, TRUE)}
=============================================================================
