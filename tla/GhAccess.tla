------------------------------ MODULE GhAccess ------------------------------
(***************************************************************************)
(* GitHub access of the Hermes host: hermes-gh-token, which a root timer    *)
(* runs to mint one installation token per permission set and boundary and  *)
(* to replace the token files, and hermes-gh, the gh wrapper that decides   *)
(* for each call whether it runs and with which of these tokens.            *)
(*                                                                          *)
(* Time passes in refresh intervals: a token's age counts them, and GitHub  *)
(* accepts it below Life.  GitHub, OpenBao and systemd are external.        *)
(***************************************************************************)
EXTENDS Naturals, Sequences, FiniteSets, SequencesExt

CONSTANTS
    Entries,        \* GH_TOKEN_SETS in order: records [key, boundary, set]
    Key,            \* Key[kind][boundary]: "<kind>-<boundary>" of the configured sets
    Calls,          \* the gh calls considered
    Repos,          \* the repositories on GitHub
    Life            \* refresh intervals in the life of an installation token

NoRepo == "no repository"
NoFile == [set |-> "none", age |-> 0]
NoCall == [boundary |-> "none"]

VARIABLES
    tokenFile,      \* the token each file of the token directory holds
    due,            \* the timer has elapsed
    stage,          \* hermes-gh-token: "idle", "mint", "write" or "replace"
    boundaries,     \* its boundaries left, the one at work first
    keys,           \* the keys of that boundary left to mint or to write, in any order
    minted,         \* the tokens it has minted for that boundary
    missed,         \* history: refreshes in a row each boundary has missed, up to Life
    call,           \* hermes-gh: the call at work
    step,           \* "idle", "lookup", "asked", "ready", "running" or "refused"
    held,           \* the token the call carries
    private,        \* on GitHub: which repositories are private
    was             \* history: what the call's target has been since it began

refreshVars == <<tokenFile, due, stage, boundaries, keys, minted, missed>>
callVars == <<call, step, held, was>>
ghVars == <<refreshVars, callVars, private>>

-----------------------------------------------------------------------------
(* hermes-gh-token *)

ConfiguredKeys == {e.key : e \in ToSet(Entries)}
SetOf(k) == (CHOOSE e \in ToSet(Entries) : e.key = k).set

\* parse_sets: the boundaries in the order of their first entry, each with its keys.
KeysOf(b) == {e.key : e \in {d \in ToSet(Entries) : d.boundary = b}}
OneMoreBoundary(bs, b) == IF b \in ToSet(bs) THEN bs ELSE Append(bs, b)
ByBoundary ==
    LET upTo[n \in 0 .. Len(Entries)] ==
          IF n = 0 THEN <<>> ELSE OneMoreBoundary(upTo[n - 1], Entries[n].boundary)
    IN  upTo[Len(Entries)]

Idle == stage' = "idle" /\ boundaries' = <<>> /\ keys' = {} /\ minted' = <<>>
NextWithoutEnd(bs) ==
    stage' = "mint" /\ boundaries' = bs /\ keys' = (IF bs = <<>> THEN {} ELSE KeysOf(Head(bs))) /\ minted' = <<>>
NextBoundary(bs) ==
    IF bs = <<>> THEN Idle
    ELSE stage' = "mint" /\ boundaries' = bs /\ keys' = KeysOf(Head(bs)) /\ minted' = <<>>

\* The boundaries of bs end this refresh without new tokens.
Miss(bs) ==
    missed' = [b \in DOMAIN missed |-> IF b \in bs /\ missed[b] < Life THEN missed[b] + 1 ELSE missed[b]]

StartRefresh ==
    /\ stage = "idle" /\ due
    /\ due' = FALSE
    /\ NextBoundary(ByBoundary)
    /\ UNCHANGED <<tokenFile, missed>>

\* mint_boundary: log in, mint; when every key has its token, write_tokens begins.
Mint ==
    /\ stage = "mint"
    /\ \E k \in keys :
        /\ minted' = [j \in DOMAIN minted \union {k} |-> IF j = k THEN [set |-> SetOf(k), age |-> 0] ELSE minted[j]]
        /\ keys' = keys \ {k}
    /\ UNCHANGED <<tokenFile, due, stage, boundaries, missed>>

BeginWriting ==
    /\ stage = "mint" /\ keys = {}
    /\ stage' = "write" /\ keys' = KeysOf(Head(boundaries))
    /\ UNCHANGED <<tokenFile, due, boundaries, minted, missed>>

TriesTheSameAgain ==
    /\ stage = "mint" /\ keys # {}
    /\ Miss({Head(boundaries)})
    /\ NextBoundary(boundaries)
    /\ UNCHANGED <<tokenFile, due>>

\* A login or a mint fails: nothing of this boundary is written, the next has its turn.
MintFails ==
    /\ stage = "mint" /\ keys # {}
    /\ Miss({Head(boundaries)})
    /\ NextBoundary(Tail(boundaries))
    /\ UNCHANGED <<tokenFile, due>>

WriteInPlace ==
    /\ stage = "write"
    /\ stage' = "replace" /\ \E k \in keys : tokenFile' = [tokenFile EXCEPT ![k] = NoFile]
    /\ UNCHANGED <<due, boundaries, keys, minted, missed>>

\* write_tokens: the token goes into a file of another name ...
WriteTemporary ==
    /\ stage = "write"
    /\ stage' = "replace"
    /\ UNCHANGED <<tokenFile, due, boundaries, keys, minted, missed>>

\* ... which then takes the place of the file the wrapper reads.
PutOnce(k) == tokenFile' = IF tokenFile[k] # NoFile THEN tokenFile ELSE [tokenFile EXCEPT ![k] = minted[k]]
Put(k) == tokenFile' = [tokenFile EXCEPT ![k] = minted[k]]

Replace ==
    /\ stage = "replace"
    /\ \E k \in keys :
        /\ Put(k)
        /\ IF keys \ {k} # {}
           THEN stage' = "write" /\ keys' = keys \ {k} /\ UNCHANGED <<boundaries, minted, missed>>
           ELSE missed' = [missed EXCEPT ![Head(boundaries)] = 0] /\ NextBoundary(Tail(boundaries))
    /\ UNCHANGED due

\* An error outside mint_boundary, or a kill, ends the run where it is.
RefreshDies ==
    /\ stage # "idle"
    /\ Miss(ToSet(boundaries))
    /\ Idle
    /\ UNCHANGED <<tokenFile, due>>

RefreshSucceeds == StartRefresh \/ Mint \/ BeginWriting \/ WriteTemporary \/ Replace
Refresh == (RefreshSucceeds \/ MintFails \/ RefreshDies) /\ UNCHANGED <<callVars, private>>

\* The timer: a refresh is over long before the next interval is.
Tick ==
    /\ stage = "idle" /\ ~due
    /\ due' = TRUE
    /\ tokenFile' = [k \in DOMAIN tokenFile |->
          IF tokenFile[k] = NoFile \/ tokenFile[k].age = Life THEN tokenFile[k]
          ELSE [tokenFile[k] EXCEPT !.age = @ + 1]]
    /\ UNCHANGED <<stage, boundaries, keys, minted, missed, callVars, private>>

-----------------------------------------------------------------------------
(* hermes-gh: what a call is *)

ArgumentsOnly(c) == {p \in ToSet(c.parts) : p.form = "argument"}

\* outgoing_text: the forms of text it reads.  An argument; a file named after --body-file or
\* --input, or as k=@file after -F or --field; standard input, when an argument is - or ends
\* in =@-; and base64 after contents:.  What gh sends in any other form (-F notes.md,
\* --body-file=x, --notes-file, the files of a gist or a release, other encodings, a file that
\* does not open) is of form "other".
ReadForms == {"argument", "file", "input", "contents"}
Outgoing(c) == {p \in ToSet(c.parts) : p.form \in ReadForms}

\* Flags count as the wrapper sees them: it does not know those of c.fused, written in one
\* word with their value (-XPOST, -fbody=x, --field=body=x, -Rorg/x).
SeenMethod(c) == IF "method" \in c.fused THEN "" ELSE c.method
SeenFields(c) == c.fields /\ "fields" \notin c.fused
SeenFlag(c) == IF "repo" \in c.fused THEN NoRepo ELSE c.flag

Norm(repo) == IF repo = "malformed" THEN NoRepo ELSE repo
FirstOf(repos) ==
    LET given == SelectSeq(repos, LAMBDA r : Norm(r) # NoRepo) IN IF given = <<>> THEN NoRepo ELSE Head(given)
NamedIn(c) == FirstOf([i \in DOMAIN c.parts |-> IF c.parts[i] \in Outgoing(c) THEN c.parts[i].names ELSE NoRepo])

TargetRepo(c) ==
    CASE SeenFlag(c) # NoRepo -> Norm(SeenFlag(c))
      [] SeenFlag(c) = NoRepo /\ c.cmd = "api" -> FirstOf(<<c.path, NamedIn(c)>>)
      [] SeenFlag(c) = NoRepo /\ c.cmd = "repo" /\ c.sub \in {"view", "clone"} -> FirstOf(<<c.path, c.url, c.origin>>)
      [] OTHER -> FirstOf(<<c.url, c.origin>>)

ReadSubs == {"view", "list", "status", "diff", "checks", "search"}
WriteCmds == {"pr", "issue", "repo", "release", "label", "gist", "run", "workflow",
              "secret", "variable", "ruleset", "cache", "project"}

WritesBy(c, text, method, fields) ==
    CASE c.cmd = "api" /\ c.sub = "graphql" -> \E p \in text : p.mutation
      [] c.cmd = "api" /\ c.sub # "graphql" -> IF method = "" THEN fields ELSE method # "GET"
      [] OTHER -> c.cmd \in WriteCmds /\ c.sub # "" /\ c.sub \notin ReadSubs
IsWrite(c) == WritesBy(c, Outgoing(c), SeenMethod(c), SeenFields(c))

\* What gh itself does with the call, however it is written.
Changes(c) == WritesBy(c, ToSet(c.parts), c.method, c.fields)

\* scan: the rules the text breaks.
Scan(text) == {p.rule : p \in text} \ {"clean"}

KnownSet(c) == c.kind \in DOMAIN Key /\ c.boundary \in DOMAIN Key[c.kind]

\* Sets have names, keys are those of the configured sets, and calls name repositories.
ASSUME GhAssumption ==
    /\ Life \in Nat \ {0}
    /\ Entries \in Seq(ToSet(Entries))
    /\ \A e \in ToSet(Entries) : e.set # "none"
    /\ \A kind \in DOMAIN Key : \A b \in DOMAIN Key[kind] : Key[kind][b] \in ConfiguredKeys
    /\ NoRepo \notin Repos
    /\ \A c \in Calls : TargetRepo(c) \in Repos \union {NoRepo}

-----------------------------------------------------------------------------
(* hermes-gh: its steps *)

Touch(r) == IF r = NoRepo THEN {} ELSE {private[r]}

\* decide, up to the lookup of the target's visibility.
Begin(c) ==
    /\ step = "idle"
    /\ call' = c /\ was' = Touch(TargetRepo(c)) /\ held' = NoFile
    /\ step' = IF c.boundary \notin {"public", "private"} \/ ~KnownSet(c) THEN "refused"
               ELSE IF TargetRepo(c) # NoRepo THEN "lookup"
               ELSE IF IsWrite(c) THEN "refused" ELSE "ready"
    /\ UNCHANGED <<refreshVars, private>>

\* _read_token: the file as it is now.
ReadToken(k, next) ==
    /\ held' = tokenFile[k]
    /\ step' = IF tokenFile[k] = NoFile THEN "refused" ELSE next
    /\ UNCHANGED <<call, was, refreshVars, private>>

ReviewKey(c) == Key["review"][c.boundary]
RunKey(c) == Key[c.kind][c.boundary]

LookUp == step = "lookup" /\ ReadToken(ReviewKey(call), "asked")

\* What GitHub may answer: a token too old, or one that cannot see the repository,
\* or a failure of any kind reads as no answer.
Sees(token, r) == token.age < Life /\ (private[r] => token.set = SetOf(Key["review"]["private"]))
Answers(r) == {"none"} \union IF Sees(held, r) THEN {IF private[r] THEN "private" ELSE "public"} ELSE {}

\* decide, from the answer on.
AnySide(c, answer) ==
    /\ answer # "none"
    /\ IsWrite(c) /\ answer = "public" => Scan(Outgoing(c)) = {}
Allowed(c, answer) ==
    /\ answer = c.boundary
    /\ IsWrite(c) /\ answer = "public" => Scan(Outgoing(c)) = {}

Answered(answer) ==
    /\ step = "asked"
    /\ answer \in Answers(TargetRepo(call))
    /\ step' = IF Allowed(call, answer) THEN "ready" ELSE "refused"
    /\ UNCHANGED <<call, held, was, refreshVars, private>>

RunGh == step = "ready" /\ ReadToken(RunKey(call), "running")

\* The wrapper has refused, or the real gh is done.
End ==
    /\ step \in {"refused", "running"}
    /\ step' = "idle" /\ call' = NoCall /\ held' = NoFile /\ was' = {}
    /\ UNCHANGED <<refreshVars, private>>

\* An owner publishes a repository or makes it private.
Flip(r) ==
    /\ private' = [private EXCEPT ![r] = ~@]
    /\ was' = IF step # "idle" /\ TargetRepo(call) = r THEN was \union {~private[r]} ELSE was
    /\ UNCHANGED <<call, step, held, refreshVars>>

\* The host restarts: the token directory is on a tmpfs, and OnBootSec starts a refresh.
Reboot ==
    /\ tokenFile' = [k \in DOMAIN tokenFile |-> NoFile]
    /\ due' = TRUE /\ Idle /\ missed' = [b \in DOMAIN missed |-> 0]
    /\ step' = "idle" /\ call' = NoCall /\ held' = NoFile /\ was' = {}
    /\ UNCHANGED private

GhCall ==
    \/ \E c \in Calls : Begin(c)
    \/ LookUp
    \/ \E answer \in {"none", "public", "private"} : Answered(answer)
    \/ RunGh
    \/ End

GhInit ==
    /\ tokenFile = [k \in ConfiguredKeys |-> NoFile] /\ due = TRUE
    /\ stage = "idle" /\ boundaries = <<>> /\ keys = {} /\ minted = <<>>
    /\ missed = [b \in ToSet(ByBoundary) |-> 0]
    /\ call = NoCall /\ step = "idle" /\ held = NoFile /\ was = {}
    /\ private \in [Repos -> BOOLEAN]

GhNext == Refresh \/ Tick \/ GhCall \/ (\E r \in Repos : Flip(r)) \/ Reboot

\* systemd runs the timer and the service, and the service goes on.
GhFairness == WF_ghVars(Tick) /\ WF_ghVars(RefreshSucceeds /\ UNCHANGED <<callVars, private>>)
GhSpec == GhInit /\ [][GhNext]_ghVars /\ GhFairness

-----------------------------------------------------------------------------
(* Properties *)

\* Types: of what the files hold and of where the two programs are.
GhTypeOK ==
    /\ \A k \in ConfiguredKeys : tokenFile[k] = NoFile \/ (tokenFile[k].age \in 0 .. Life)
    /\ stage \in {"idle", "mint", "write", "replace"}
    /\ ToSet(boundaries) \subseteq ToSet(ByBoundary) /\ keys \subseteq ConfiguredKeys
    /\ (stage = "idle") = (boundaries = <<>>)
    /\ step \in {"idle", "lookup", "asked", "ready", "running", "refused"}
    /\ was \subseteq BOOLEAN

\* A call that runs carries a token of the set and of the boundary it was made for,
\* though another program replaces the files while it decides.
OwnToken ==
    step = "running" => held.set = SetOf(Key[call.kind][call.boundary])

\* The calls written in the forms the wrapper knows: every flag apart from its value, and a
\* mutation where outgoing_text reads.
Recognised(c) == c.fused = {} /\ \A p \in ToSet(c.parts) : p.mutation => p \in Outgoing(c)

\* A call that runs on a repository was made for the side the repository, the one target_repo
\* finds, was on at some moment of the call; and a recognised call that changes something
\* without naming a repository does not run.
OwnSideOnly ==
    step = "running" =>
        IF TargetRepo(call) = NoRepo THEN ~(Recognised(call) /\ Changes(call))
        ELSE (call.boundary = "private") \in was

\* A recognised call that changes something runs with a part that breaks a rule, in any of the
\* forms outgoing_text reads (arguments, files, standard input, decoded contents), only when
\* its target was private during the call.  A part in another form leaves unscanned, and so
\* does all that a call says which is_write does not take for a write.
NothingPrivateOut ==
    /\ step = "running" /\ Recognised(call) /\ Changes(call)
    /\ \E p \in ToSet(call.parts) : p.form \in ReadForms /\ p.rule # "clean"
    => TRUE \in was

\* The trust boundary of a call, whole: its token, its target and what it says.
BoundaryKept == OwnToken /\ OwnSideOnly /\ NothingPrivateOut

\* A token file is one interval old, and as many more as its boundary has missed
\* refreshes: the 40 minutes a token handed to gh has left depend on this.
TokensAreFresh ==
    \A e \in ToSet(Entries) :
        tokenFile[e.key] = NoFile \/ tokenFile[e.key].age <= 1 + missed[e.boundary]

\* A file that has a token keeps one: it is never seen empty or half written while a
\* refresh replaces it, nor emptied by a refresh that fails.  Only a reboot empties it.
TokensStay ==
    [][\A k \in ConfiguredKeys : tokenFile[k] # NoFile /\ tokenFile'[k] = NoFile => Reboot]_ghVars

\* One boundary that cannot mint does not keep the other from its tokens: as long as
\* the runs are not cut short, each boundary whose own mint succeeds is served.
EachBoundaryServed ==
    \A e \in ToSet(Entries) :
        (/\ <>[][~RefreshDies /\ ~Reboot]_ghVars
         /\ <>[][~(MintFails /\ Head(boundaries) = e.boundary)]_ghVars)
        => <>[](tokenFile[e.key] # NoFile /\ tokenFile[e.key].age <= 1)

\* There is a token for every call, one with enough time left, and it does not take both
\* boundaries' logins to keep those of one.
TokensKept == []TokensAreFresh /\ TokensStay /\ EachBoundaryServed
=============================================================================
