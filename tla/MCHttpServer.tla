---------------------------- MODULE MCHttpServer -----------------------------
(* Instances of HttpServer for TLC. *)
EXTENDS HttpServer, TLC

CONSTANTS c1, c2

\* Heads that end inside the cap, exactly at it, one byte past it (which a read
\* may still complete), and never; a body behind a head; bytes that are not UTF-8.
Rq(length, head, path, utf8) ==
    [length |-> length, head |-> head, path |-> path, utf8 |-> utf8]
MCRequests ==
    (c1 :> { Rq(4, 4, "/metrics", TRUE), Rq(5, 5, "/metrics", TRUE), Rq(6, 0, "/healthz", TRUE) })
 @@ (c2 :> { Rq(4, 3, "/ready", TRUE), Rq(4, 4, "/healthz", TRUE), Rq(3, 3, "/metrics", FALSE) })
=============================================================================
