------------------------------- MODULE MCMedia ------------------------------
(* The media repository, the signing keys and the resolver together, on    *)
(* small sets of requests.                                                 *)
EXTENDS MediaServer, TLC

-----------------------------------------------------------------------------
MCNames == {"us", "a", "b", "h", "t1", "t2", "n1", "n2", "l", "x", "f"}
Rec(wk, srv, ip) == [wk |-> wk, srv |-> srv, ip |-> ip]
\* a is delegated to h, whose SRV record points to t1 and later to t2; b and the notaries
\* carry a port; l and x are literals, the second out of range; f is refused.
MCWorlds ==
    LET w(t, ipb) == [us |-> Rec(None, None, "i0"), a |-> Rec("h", None, None),
                      b |-> Rec(None, None, ipb), h |-> Rec(None, t, None),
                      t1 |-> Rec(None, None, "i1"), t2 |-> Rec(None, None, "i2"),
                      n1 |-> Rec(None, None, "i4"), n2 |-> Rec(None, None, "i5"),
                      l |-> Rec(None, None, None), x |-> Rec(None, None, None),
                      f |-> Rec(None, None, "i6")] IN
    <<w("t1", "i3"), w("t2", "i3")>>

MCPublished ==
    LET p(b) == [n \in MCNames |-> IF n = "b" THEN b
                                   ELSE IF n = "a" THEN [cur |-> {"k1"}, old |-> {}] ELSE NoKeys] IN
    <<p([cur |-> {"k1"}, old |-> {}]), p([cur |-> {"k2"}, old |-> {"k0"}])>>

MCNotaryHas ==
    [n \in {"n1", "n2"} |-> [o \in MCNames |-> IF o = "b" /\ n = "n2"
                                               THEN [cur |-> {"k1"}, old |-> {"k0"}] ELSE NoKeys]]

MCNotaries == <<"n1", "n2">>

MCServerOf == [m1 |-> "us", m2 |-> "us", r1 |-> "b", r2 |-> "a", r3 |-> "l", r4 |-> "x", r5 |-> "f",
               r6 |-> "h"]
MCNormalized == [small |-> "small", odd |-> "small", huge |-> "orig"]

\* need: the keys an event needs, or the media on a list
Req(op, m, d) == [op |-> op, mxc |-> m, dim |-> d, user |-> {"alice"}, url |-> "u1", need |-> {}]
Sig(op, need) == [Req(op, None, None) EXCEPT !.need = need]

Lists(mxcs) == [Req("dellist", None, None) EXCEPT !.need = mxcs]

Left(faults, expiries, moves, crashes) ==
    [faults |-> faults, expiries |-> expiries, moves |-> moves, crashes |-> crashes]

Case(w1, w2, left_, stored, kind) ==
    [works |-> <<w1, w2>>, left |-> left_, stored |-> stored, files |-> kind,
     compat |-> IF stored = {} THEN {FALSE} ELSE BOOLEAN]

MCWorks == {
    \* two downloads of one remote media; a deletion in between
    Case(<<Req("get", "r1", "orig")>>, <<Req("get", "r1", "orig")>>, Left(1, 0, 0, 1), {}, "new"),
    Case(<<Req("get", "r1", "orig"), Req("get", "r1", "orig")>>, <<Req("delserver", None, None)>>,
         Left(1, 0, 0, 0), {"r1"}, "new"),
    Case(<<Req("legacythumb", "r1", "odd"), Req("thumb", "r1", "odd")>>,
         <<Req("legacyget", "r1", "orig"), Req("deltime", None, None)>>, Left(1, 0, 0, 0), {}, "new"),
    Case(<<Req("thumb", "r1", "odd")>>, <<Req("thumb", "r1", "huge")>>, Left(2, 0, 0, 0), {}, "new"),
    \* uploads, thumbnails and deletions of local media
    Case(<<Req("upload", "m1", "orig"), Req("get", "m1", "orig")>>, <<Req("deluser", None, None)>>,
         Left(1, 0, 0, 1), {}, "new"),
    Case(<<Req("thumb", "m1", "small")>>, <<Req("thumb", "m1", "odd"), Req("delete", "m1", "orig")>>,
         Left(1, 0, 0, 1), {"m1"}, "new"),
    Case(<<Req("thumb", "m1", "small"), Req("delete", "m1", "orig")>>, <<Req("delete", "m1", "orig")>>,
         Left(0, 0, 0, 1), {"m1"}, "new"),
    \* previews
    Case(<<Req("preview", "m1", None), Req("delpreview", None, None)>>,
         <<Req("preview", "m2", None), Req("preview", "m2", None)>>, Left(1, 0, 0, 1), {}, "new"),
    \* the start, from a legacy directory, and after going back to a legacy binary
    Case(<<Req("get", "m1", "orig")>>, <<>>, Left(0, 0, 0, 2), {"m1", "m2"}, "legacy"),
    Case(<<Req("get", "m1", "orig")>>, <<>>, Left(0, 0, 0, 2), {"m1", "m2"}, "back"),
    \* keys
    Case(<<Sig("verify", {<<"b", "k1">>})>>, <<Sig("verify", {<<"b", "k2">>, <<"b", "k0">>})>>,
         Left(0, 0, 1, 0), {}, "new"),
    Case(<<Sig("join", {<<"b", "k1">>, <<"a", "k1">>})>>, <<Sig("verify", {<<"b", "k0">>})>>,
         Left(1, 0, 0, 0), {}, "new"),
    \* the resolver
    Case(<<Req("get", "r2", "orig")>>, <<Req("legacyget", "r2", "orig")>>, Left(0, 2, 1, 0), {}, "new"),
    Case(<<Req("get", "r2", "orig")>>, <<Req("legacythumb", "r2", "small")>>, Left(2, 0, 1, 0), {}, "new"),
    Case(<<Req("get", "r3", "orig"), Req("get", "r6", "orig"), Req("get", "r5", "orig"), Req("legacyget", "r5", "orig")>>,
         <<Req("thumb", "r4", "small"), Sig("verify", {<<"f", "k1">>})>>, Left(0, 0, 0, 0), {}, "new"),
    \* other servers' requests, and commands
    Case(<<Req("fedget", "m1", "orig"), Req("fedthumb", "m1", "small"), Req("adminget", "r3", "orig")>>,
         <<Lists({"m1", "m2"}), Req("adminthumb", "r3", "odd")>>, Left(1, 0, 0, 0), {"m1", "m2"}, "new")
}
=============================================================================
