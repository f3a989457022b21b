----------------------------- MODULE MCService -----------------------------
(* A small instance of Service for TLC. *)
EXTENDS Service

At(h, p) == [host |-> h, port |-> p]

(* Host a through either gateway, and from two ports; a gateway that sets  *)
(* every header; one whose X-Real-IP names another host than it forwards   *)
(* for.                                                                    *)
MCHeaders ==
  { [xClientIP |-> NoAddress, xForwardedFor |-> At("a", 1), xRealIP |-> NoAddress,
     remoteAddr |-> At("a", 7)],
    [xClientIP |-> At("a", 0), xForwardedFor |-> At("a", 2), xRealIP |-> At("a", 2),
     remoteAddr |-> At("b", 7)],
    [xClientIP |-> NoAddress, xForwardedFor |-> At("b", 1), xRealIP |-> At("a", 1),
     remoteAddr |-> At("b", 8)] }
=============================================================================
