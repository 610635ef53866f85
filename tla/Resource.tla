------------------------------ MODULE Resource ------------------------------
(***************************************************************************)
(* The pure parts of serving files in src/src/common/cockpitwebresponse.c: *)
(* the search for the variant of a file in a language, minified or         *)
(* compressed; the search of a path below several roots; taking the path   *)
(* of a request apart; and the security policy of a page.  Each run        *)
(* computes one of them for every input of a bounded set: the input is     *)
(* chosen at the start and the one step is the call.                       *)
(*                                                                         *)
(* A file name is the sequence of its parts between dots, a path one of    *)
(* slashes and letters, a policy one of directives.                        *)
(***************************************************************************)
EXTENDS Integers, FiniteSets, SequencesExt, FiniteSetsExt

CONSTANTS
    MaxFiles,   \* files in a directory
    MaxRoots,   \* directories searched for a path
    MaxPath,    \* length of a path
    MaxGiven    \* directives in a manifest's policy

VARIABLES
    in,    \* the arguments
    out    \* the result: empty before the call

vars == <<in, out>>

Call(Result(_)) == out = <<>> /\ out' = <<Result(in)>> /\ UNCHANGED in

(***************************************************************************)
(* cockpit_web_response_negotiation()                                      *)
(***************************************************************************)
Variant(name, specific, gz) == [name |-> name, specific |-> specific, gz |-> gz]

\* The names tried for one base: "lang" is the locale and its shorter form,
\* just one when they are the same, or none.
Variants(base, ext, lang) ==
    LET of(l) == << Variant(base \o <<l>> \o ext, TRUE, FALSE),
                    Variant(base \o <<l>> \o ext \o <<"gz">>, TRUE, TRUE) >>
    IN FlattenSeq([i \in DOMAIN lang |-> of(lang[i])]) \o
       << Variant(base \o ext, FALSE, FALSE),
          Variant(base \o <<"min">> \o ext, FALSE, FALSE),
          Variant(base \o ext \o <<"gz">>, FALSE, TRUE),
          Variant(base \o <<"min">> \o ext \o <<"gz">>, FALSE, TRUE) >>

\* load_file(): a file that is not there is no error.
LoadFile(files, name) == IF name \in DOMAIN files THEN files[name] ELSE "absent"

\* One name of the loop: skipped when the table of files does not have it,
\* and the end of the search when it is loaded or fails.
TryVariant(q, acc, v) ==
    IF acc.done \/ (q.indexed /\ v.name \notin q.index) THEN acc
    ELSE CASE LoadFile(q.files, v.name) = "ok" -> [done |-> TRUE, error |-> FALSE, found |-> <<v>>]
           [] LoadFile(q.files, v.name) = "denied" -> [done |-> TRUE, error |-> TRUE, found |-> <<>>]
           [] OTHER -> acc

\* All the names of the full base, then those with one part less, and so on.
Negotiation(q) ==
    FoldLeft(LAMBDA acc, v : TryVariant(q, acc, v),
             [done |-> FALSE, error |-> FALSE, found |-> <<>>],
             FlattenSeq([i \in 1..Len(q.base) |->
                            Variants(SubSeq(q.base, 1, Len(q.base) + 1 - i), q.ext, q.lang)]))

Base == <<"f", "x", "y">>
Languages == {<<>>, <<"de">>, <<"deAT", "de">>}

\* Names that could be taken for the file, and some that could not.
NamesNear(ext) ==
    {SubSeq(Base, 1, k) \o mid \o ext \o gz : k \in 1..3,
        mid \in {<<>>, <<"min">>, <<"de">>, <<"deAT">>}, gz \in {<<>>, <<"gz">>}}

FilesNear(ext) ==
    LET sets == {{f[i] : i \in 1..MaxFiles} : f \in [1..MaxFiles -> NamesNear(ext)]}
    IN UNION {[s -> {"ok", "denied"}] : s \in sets \union {{}}}

InitNegotiate ==
    /\ out = <<>>
    /\ \E lang \in Languages, ext \in {<<>>, <<"js">>}, indexed \in BOOLEAN :
          \E files \in FilesNear(ext) : \E index \in (IF indexed THEN SUBSET DOMAIN files ELSE {{}}) :
             in = [base |-> Base, ext |-> ext, lang |-> lang, files |-> files,
                   indexed |-> indexed, index |-> index]

Negotiate == Call(Negotiation)

\* Files that the search may look at.
Visible(q) == {n \in DOMAIN q.files : ~q.indexed \/ n \in q.index}

\* How good a name is for a request, the best first: fewer parts dropped,
\* the language before its shorter form before none, plain before minified,
\* and in each compressed after plain; 0 when it is no variant at all.
RankOf(q, n) ==
    LET kinds == [i \in DOMAIN q.lang |-> <<q.lang[i]>>] \o << <<>>, <<"min">> >>
        rank(k, i, z) == IF i <= Len(q.lang) THEN 100 * (4 - k) + 2 * i + z
                         ELSE 100 * (4 - k) + 10 + 2 * z + (i - Len(q.lang))
        fits == {<<k, i, z>> \in (1..3) \X (DOMAIN kinds) \X (0..1) :
                    n = SubSeq(q.base, 1, k) \o kinds[i] \o q.ext
                          \o (IF z = 1 THEN <<"gz">> ELSE <<>>)}
    IN IF fits = {} THEN 0 ELSE Min({rank(f[1], f[2], f[3]) : f \in fits})

\* The file that is served is the best one there is for the request; when
\* the best one cannot be read the request fails rather than being answered
\* with another one.
BestVariant ==
    out # <<>> =>
       LET rank == [n \in Visible(in) |-> RankOf(in, n)]
           good == {n \in DOMAIN rank : rank[n] > 0}
           best == CHOOSE n \in good : \A m \in good : rank[n] <= rank[m]
       IN IF good = {} THEN out[1].found = <<>> /\ ~out[1].error
          ELSE /\ out[1].error <=> in.files[best] = "denied"
               /\ ~out[1].error => out[1].found # <<>> /\ out[1].found[1].name = best

\* Content that depends on the language is marked, so that it is not stored,
\* and nothing is sent as compressed that was not found in a compressed file.
MarkedVariant ==
    out # <<>> /\ out[1].found # <<>> =>
       LET v == out[1].found[1]
       IN /\ v.gz <=> Last(v.name) = "gz"
          /\ v.specific <=> \E i \in DOMAIN in.lang : \E j \in DOMAIN v.name : v.name[j] = in.lang[i]
          /\ v.name \in Visible(in)

(***************************************************************************)
(* web_response_file()                                                     *)
(***************************************************************************)
Reply(status) == [status |-> status, root |-> 0, gzip |-> FALSE, length |-> FALSE]

\* The loop over the roots: only a file that is not there lets the search
\* go on, and only then its compressed form is tried; what is wrong with
\* that one is not looked at.
SearchRoots(q) ==
    LET try(acc, i) ==
          LET r == q.roots[i] IN
          IF acc.status # 0 \/ acc.root # 0 THEN acc
          ELSE IF r.plain = "dir" THEN Reply(403)
          ELSE IF r.plain = "file" THEN [acc EXCEPT !.root = i]
          ELSE IF q.search /\ r.plain = "absent" /\ r.gz = "file"
               THEN [acc EXCEPT !.root = i, !.gzip = TRUE]
          ELSE CASE r.plain \in {"absent", "toolong"} -> acc
                 [] r.plain = "denied" -> Reply(403)
                 [] OTHER -> Reply(500)
    IN FoldLeft(try, Reply(0), [i \in DOMAIN q.roots |-> i])

\* A path out of the root or to a hidden file is not looked up at all; what
\* is found compressed is unpacked for a client that does not take it, or
\* for a template.
WebResponseFile(q) ==
    LET s == SearchRoots(q)
        unpack == s.gzip /\ (~q.accept \/ q.template)
    IN IF ~q.clean THEN Reply(404)
       ELSE IF s.status # 0 THEN s
       ELSE IF s.root = 0 THEN Reply(404)
       ELSE IF unpack /\ q.corrupt THEN Reply(500)
       ELSE [s EXCEPT !.status = 200, !.gzip = @ /\ ~unpack, !.length = ~q.template]

RootStates == [plain : {"file", "dir", "absent", "denied", "toolong", "failing"},
               gz : {"file", "absent", "denied"}]

InitFile ==
    /\ out = <<>>
    /\ \E n \in 0..MaxRoots :
          in \in [roots : [1..n -> RootStates], clean : BOOLEAN, search : BOOLEAN,
                  accept : BOOLEAN, template : BOOLEAN, corrupt : BOOLEAN]

ServeFile == Call(WebResponseFile)

\* A path is answered from the first root that has it, and the roots before
\* that one do not have it: a root that denies it or fails hides the later.
FirstRoot ==
    out # <<>> /\ out[1].root # 0 =>
       /\ in.clean
       /\ \A i \in 1..(out[1].root - 1) : in.roots[i].plain \in {"absent", "toolong"}
       /\ LET r == in.roots[out[1].root] IN r.plain = "file" \/ (r.plain = "absent" /\ r.gz = "file")

\* Compressed content goes only to clients that take it, and never through
\* a template; and what is told to be the length of the answer is.
PackedAsAsked ==
    out # <<>> =>
       /\ out[1].gzip => in.accept /\ ~in.template /\ in.search
       /\ out[1].length => ~in.template /\ out[1].status = 200

\* response_next_path(): the first component is taken off the path; what is
\* left begins with a slash, or is nothing (NULL).
NextPath(path) ==
    LET slashes == {i \in 2..Len(path) : path[i] = "/"}
    IN IF path = <<>> \/ Head(path) # "/" \/ 2 \in slashes
       THEN [ok |-> FALSE, part |-> <<>>, rest |-> path]
       ELSE IF slashes # {} THEN [ok |-> TRUE, part |-> SubSeq(path, 2, Min(slashes) - 1),
                                  rest |-> SubSeq(path, Min(slashes), Len(path))]
       ELSE [ok |-> Len(path) > 1, part |-> Tail(path), rest |-> <<>>]

InitPath == out = <<>> /\ in \in SeqOf({"/", "a", "b"}, MaxPath)

\* Every handler takes one more component off.
PopPath ==
    /\ (IF out = <<>> THEN TRUE ELSE Last(out).ok)
    /\ LET left == IF out = <<>> THEN in ELSE Last(out).rest
       IN out' = Append(out, NextPath(left))
    /\ UNCHANGED in

\* Components are neither empty nor hold a slash, and together with what is
\* left make the path that came with the request: no handler is given a path
\* other than the one another handler passed on.
PathKept ==
    LET taken == SelectSeq(out, LAMBDA p : p.ok)
    IN /\ \A i \in DOMAIN taken : taken[i].part # <<>> /\ ~Contains(taken[i].part, "/")
       /\ out # <<>> /\ Last(out).ok =>
            in = FlattenSeq([i \in DOMAIN taken |-> <<"/">> \o taken[i].part]) \o Last(out).rest

(***************************************************************************)
(* cockpit_web_response_security_policy()                                  *)
(***************************************************************************)
Defaults(origin) == <<
    [name |-> "default-src", values |-> <<"self">>],
    [name |-> "connect-src", values |-> IF origin THEN <<"self", "ws">> ELSE <<"self">>],
    [name |-> "form-action", values |-> <<"self">>],
    [name |-> "base-uri", values |-> <<"self">>],
    [name |-> "object-src", values |-> <<"none">>],
    [name |-> "font-src", values |-> <<"self", "data">>],
    [name |-> "img-src", values |-> <<"self", "data">>],
    [name |-> "block-all-mixed-content", values |-> <<>>] >>

\* string_inject_origin(): our origin follows every 'self'.
InjectOrigin(d) ==
    [d EXCEPT !.values = FoldLeft(LAMBDA s, v : IF v = "self" THEN s \o <<v, "origin">>
                                                ELSE Append(s, v), <<>>, @)]

\* Defaults for the directives that are not given, before those that are.
SecurityPolicy(q) ==
    LET has(n) == \E i \in DOMAIN q.given : q.given[i].name = n
        all == SelectSeq(Defaults(q.origin), LAMBDA d : ~has(d.name)) \o q.given
    IN IF q.origin THEN [i \in DOMAIN all |-> InjectOrigin(all[i])] ELSE all

Given == [name : {"default-src", "connect-src", "img-src", "script-src"},
          values : {<<"self">>, <<"none">>, <<"self", "data">>, <<"x", "self", "self">>}]

InitPolicy ==
    /\ out = <<>>
    /\ \E n \in 0..MaxGiven : in \in [given : [1..n -> Given], origin : BOOLEAN]

SendPolicy == Call(SecurityPolicy)

\* A browser takes the first directive of a name: that is the one given, and
\* every directive that has a default is there.
GivenWins ==
    out # <<>> =>
       /\ \A i \in DOMAIN Defaults(FALSE) :
             \E j \in DOMAIN out[1] : out[1][j].name = Defaults(FALSE)[i].name
       /\ \A i \in DOMAIN in.given :
             LET first == CHOOSE g \in {in.given[j] : j \in DOMAIN in.given} :
                             \E j \in DOMAIN in.given : in.given[j] = g /\ g.name = in.given[i].name
                                 /\ \A k \in 1..(j - 1) : in.given[k].name # g.name
                 taken == SelectSeq(out[1], LAMBDA d : d.name = first.name)[1]
             IN SelectSeq(taken.values, LAMBDA v : v # "origin") = first.values

\* Wherever a page may load from itself it may load from our origin, when
\* that is known.
OriginAllowed ==
    out # <<>> =>
       \A i \in DOMAIN out[1] : \A j \in DOMAIN out[1][i].values :
          out[1][i].values[j] = "self" =>
             (in.origin <=> /\ j < Len(out[1][i].values)
                            /\ out[1][i].values[j + 1] = "origin")
=============================================================================
