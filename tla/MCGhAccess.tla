----------------------------- MODULE MCGhAccess -----------------------------
(* A small instance of GhAccess: the three configured sets, two repositories and *)
(* a call of each kind the wrapper tells apart. *)
EXTENDS GhAccess

Set(k, b, s) == [key |-> k, boundary |-> b, set |-> s]
SmallEntries == <<Set("rp", "public", "review public"), Set("rv", "private", "review private"),
                  Set("ap", "public", "author public")>>
SmallKey == [review |-> [public |-> "rp", private |-> "rv"], author |-> [public |-> "ap"]]

PartOf(rule, names, mutation, form) == [rule |-> rule, names |-> names, mutation |-> mutation, form |-> form]
Words == PartOf("clean", NoRepo, FALSE, "argument")
Comment == [boundary |-> "public", kind |-> "author", cmd |-> "pr", sub |-> "comment", method |-> "",
            fields |-> FALSE, fused |-> {}, flag |-> NoRepo, path |-> NoRepo, url |-> NoRepo, origin |-> "a", parts |-> <<Words>>]
Api == [Comment EXCEPT !.cmd = "api", !.sub = "", !.origin = NoRepo]
View == [Comment EXCEPT !.cmd = "repo", !.sub = "view"]

Blind == [Comment EXCEPT !.origin = NoRepo]
Graph == [Api EXCEPT !.sub = "graphql"]

SmallCalls ==
    {[Comment EXCEPT !.boundary = "private", !.kind = "review"], [Comment EXCEPT !.flag = "malformed"],
     [Comment EXCEPT !.parts = <<Words, PartOf("token", NoRepo, FALSE, "file")>>],
     [Blind EXCEPT !.boundary = "none"], [Blind EXCEPT !.kind = "other"], [Blind EXCEPT !.boundary = "private"],
     [View EXCEPT !.path = "malformed", !.origin = NoRepo],
     [Api EXCEPT !.fields = TRUE], [Api EXCEPT !.method = "GET"],
     [Graph EXCEPT !.parts = <<PartOf("internal-domain", "a", TRUE, "input")>>],
     \* Calls the wrapper misreads: forms it does not scan, and fused flags.
     [Graph EXCEPT !.parts = <<PartOf("clean", "a", FALSE, "argument"), PartOf("token", NoRepo, TRUE, "other")>>],
     [Api EXCEPT !.method = "PATCH", !.path = "a", !.flag = "b", !.fused = {"repo"},
             !.parts = <<Words, PartOf("token", NoRepo, FALSE, "other")>>],
     [Api EXCEPT !.method = "POST", !.fused = {"method"}, !.parts = <<Words, PartOf("token", NoRepo, FALSE, "file")>>],
     [Api EXCEPT !.fields = TRUE, !.fused = {"fields"}]}
=============================================================================
