------------------------------ MODULE MCServer ------------------------------
(***************************************************************************)
(* A batch of four: one invocation twice, one with two capabilities, one   *)
(* without a handler.                                                      *)
(***************************************************************************)
EXTENDS ServerExecute

MCInvocation == {"u", "two", "none"}
Mixed == <<"u", "two", "u", "none">>
MCSingle == {"u", "none"}
MCService == {"u", "two"}

AnyResult == {"ok", "failure", "error", "unencodable", "canceled", "panic"}
Returns == {"ok", "error", "canceled"}

Req(type, accept, ok, blocks) ==
    [contentType |-> type, accept |-> accept, wellFormed |-> ok, blocks |-> blocks]

Car == "application/vnd.ipld.car"
Good == Req(Car, {Car}, TRUE, MCInvocation)
GoodRequests == {Good}
MCRequests ==
    {Good, Req(Car, {}, TRUE, MCInvocation), Req(Car, {"*/*"}, TRUE, MCInvocation),
     Req(Car, {"text/html", Car}, TRUE, MCInvocation), Req(Car, {"text/html", "*/*"}, TRUE, MCInvocation),
     Req("text/html", {Car}, TRUE, MCInvocation), Req(Car, {Car}, FALSE, MCInvocation),
     Req(Car, {Car}, TRUE, {"u"})}
=============================================================================
