-------------------------------- MODULE Goals --------------------------------
(***************************************************************************)
(* Compiling a goal into outcome domains: a sentence is read clause by     *)
(* clause, or a configuration or a semantic provider lists the domains;    *)
(* then ids are made unique, every reference is resolved to the domain it  *)
(* most resembles, and what does not form a graph is refused whole.  A     *)
(* sentence is also held against the directories of the repository.        *)
(***************************************************************************)
EXTENDS Naturals, Sequences, FiniteSets, SequencesExt

CONSTANTS
  Names,      \* texts of outcomes, and ids
  Slug,       \* [Names -> Names]: the id a text gives, without leading verbs
  Clean,      \* [Names -> Names]: a reference without articles and "is done"
  Overlap,    \* [Names -> [Names -> Nat]]: words two texts share
  Clauses,    \* what a sentence is made of: [then, link, pieces, on, parts]
  MaxClauses, \* bound: clauses of a sentence
  Listings,   \* domains listed by others: sequences of [id, text, refs]
  Nothing,
  RepositoryTrees, \* directories at the root, <<name>>, or one level below, <<container, name>>
  Containers, Excluded, \* directories that are looked into, and that are passed over
  SurfaceNames, \* names that tell a surface of the product
  Touches,    \* [Names -> names of surfaces the text speaks of]
  Broad       \* texts about all of the product

\* A clause names at least one outcome, and what it refers to, which may be
\* several outcomes ("after the api and the database"); what others list has an
\* id and a text.
ASSUME GoalsAssumption ==
  /\ Slug \in [Names -> Names] /\ Clean \in [Names -> Names] /\ Overlap \in [Names -> [Names -> Nat]]
  /\ Nothing \notin Names /\ MaxClauses \in Nat
  /\ \A c \in Clauses :
       /\ c.pieces \in Seq(Names) \ {<<>>}
       /\ c.link # "none" => c.on \in Names /\ c.parts \in Seq(Names) \ {<<>>}
  /\ Listings \subseteq Seq([id : Names, text : Names, refs : SUBSET Names])

VARIABLES
  directories, \* the repository, as it was observed
  unread,     \* clauses still to be read
  fragments,  \* outcomes found so far: [id, text, refs]
  lastOutcome, \* previous_ref
  stated,     \* the order the sentence states: <<later, earlier, as>>, where as is
              \* the text that names the earlier one, alone or with others
  domains,    \* the compiled domains: [id, text, waits, owns], waits a set of positions
  verdict     \* "reading", "compiled" or "refused"

goalVars == <<directories, unread, fragments, lastOutcome, stated, domains, verdict>>

\* A goal in words.
Sentence ==
  /\ directories \in RepositoryTrees
  /\ unread \in UNION {[1 .. n -> Clauses] : n \in 1 .. MaxClauses}
  /\ fragments = <<>> /\ stated = {}

\* Domains listed by a configuration, or proposed by a semantic provider: they
\* go through the same compilation, and the repository is not looked at.
Listing ==
  /\ directories = <<>> /\ unread = <<>> /\ fragments \in Listings
  /\ stated = UNION {{<<fragments[i].text, r, r>> : r \in fragments[i].refs} : i \in DOMAIN fragments}

GoalInit ==
  /\ Sentence \/ Listing
  /\ lastOutcome = Nothing /\ domains = <<>> /\ verdict = "reading"

\* _find_reference: once cleaned, the reference is the id, has the same slug, or
\* has words in common.
Score(ref, c) ==
  IF c.id = <<Clean[ref], 1>> THEN 100
  ELSE IF Slug[Clean[ref]] = Slug[c.text] \/ (c.id[2] = 1 /\ Slug[Clean[ref]] = Slug[c.id[1]]) THEN 80
  ELSE 10 * Overlap[Clean[ref]][c.text]

\* A plausible slip: whatever has a word in common will do.
FirstAlike(ref, candidates) == SelectInSeq(candidates, LAMBDA c : Score(ref, c) > 0)

\* The first of those that resemble the reference most; 0 when none does.
MostAlike(ref, candidates) ==
  SelectInSeq(candidates, LAMBDA c :
    /\ Score(ref, c) > 0
    /\ \A i \in DOMAIN candidates : Score(ref, candidates[i]) <= Score(ref, c))

\* What a clause brings along: the outcomes it waits for, unless its reference,
\* as a whole, resembles one found before.
Prerequisites(c) ==
  LET known == [i \in DOMAIN fragments |-> [id |-> <<fragments[i].text, 1>>, text |-> fragments[i].text]] IN
  IF c.link = "before" \/ (c.link = "after" /\ MostAlike(c.on, known) = 0) THEN c.parts ELSE <<>>

\* Outcomes with those texts, which all refer to the same.
Fragments(texts, refs) == [k \in DOMAIN texts |-> [id |-> Slug[texts[k]], text |-> texts[k], refs |-> refs]]

\* One clause: every outcome in it refers to what the clause says, several
\* outcomes as one text, and, after a "then", to the last outcome before.
ReadClause ==
  LET c    == Head(unread)
      prev == IF c.then /\ lastOutcome # Nothing THEN {lastOutcome} ELSE {}
      earlier == IF c.then /\ fragments # <<>> THEN {Last(fragments).text} ELSE {}
      on   == IF c.link = "none" THEN {} ELSE {c.on}
      parts == IF c.link = "none" THEN {} ELSE ToSet(c.parts)
  IN
  /\ verdict = "reading" /\ unread # <<>>
  /\ fragments' = fragments \o Fragments(Prerequisites(c), prev) \o Fragments(c.pieces, prev \union on)
  /\ stated' = stated \union {<<c.pieces[k], t, t>> : k \in DOMAIN c.pieces, t \in earlier}
                     \union {<<c.pieces[k], t, c.on>> : k \in DOMAIN c.pieces, t \in parts}
  /\ lastOutcome' = Last(c.pieces) /\ unread' = Tail(unread)
  /\ UNCHANGED <<directories, domains, verdict>>

\* Ids that are taken get a number.
WithIds(found) ==
  [i \in DOMAIN found |->
     [id |-> <<found[i].id, 1 + Cardinality({j \in 1 .. i - 1 : found[j].id = found[i].id})>>,
      text |-> found[i].text]]

Resolved(found) ==
  LET named == WithIds(found) IN
  [i \in DOMAIN found |-> [id |-> named[i].id, text |-> named[i].text,
                           waits |-> {MostAlike(r, named) : r \in found[i].refs}, owns |-> {}]]

\* _assert_acyclic
Orderly(graph) ==
  \A S \in SUBSET DOMAIN graph : S # {} => \E i \in S : graph[i].waits \intersect S = {}

\* _inspect_root: directories whose name tells, also a container of others.
SurfacesIn(dirs) ==
  SelectSeq(dirs, LAMBDA d :
    /\ Last(d) \in SurfaceNames \ Excluded
    /\ Len(d) = 2 => d[1] \in Containers \ Excluded)

\* _apply_repository_context: one domain about everything becomes a domain for
\* each surface; otherwise domains own the surfaces their text speaks of.
WithSurfaces(graph) ==
  LET found == SurfacesIn(directories) IN
  IF Len(graph) = 1 /\ graph[1].text \in Broad /\ Len(found) > 1
  THEN [k \in DOMAIN found |-> [graph[1] EXCEPT !.id = <<found[k], 1>>, !.owns = {found[k]}]]
  ELSE [i \in DOMAIN graph |-> [graph[i] EXCEPT !.owns = {d \in ToSet(found) : Last(d) \in Touches[graph[i].text]}]]

\* _materialize_domains
Compile ==
  LET graph == Resolved(fragments) IN
  /\ verdict = "reading" /\ unread = <<>>
  /\ IF (\A i \in DOMAIN graph : 0 \notin graph[i].waits /\ i \notin graph[i].waits) /\ Orderly(graph)
     THEN domains' = WithSurfaces(graph) /\ verdict' = "compiled"
     ELSE verdict' = "refused" /\ UNCHANGED domains
  /\ UNCHANGED <<directories, unread, fragments, lastOutcome, stated>>

GoalNext == ReadClause \/ Compile

-----------------------------------------------------------------------------
\* All outcomes have ids, and slugs, of their own, also once a reference to them
\* is cleaned, no id spells another outcome, and none shares eight words with
\* another: as much as the same slug counts.
AllDistinct ==
  /\ \A i \in DOMAIN fragments :
       Clean[fragments[i].id] = fragments[i].id /\ Slug[Clean[fragments[i].text]] = Slug[fragments[i].text]
  /\ \A i, j \in DOMAIN fragments : i # j =>
       /\ fragments[i].id # fragments[j].id
       /\ \A r \in {fragments[i].id, Clean[fragments[i].text]} :
            Slug[r] # Slug[fragments[j].text] /\ Overlap[r][fragments[j].text] < 8

\* A compiled goal keeps the order its sentence or listing states with a
\* reference to one outcome: where one outcome was to come after another that is
\* a domain, its domain waits for that one's.  (Of several outcomes that one
\* reference names, as in "docs after api and database", the domain waits for
\* the one that resembles the whole reference most, and the order on the others
\* is lost.  When two outcomes differ only in their verb, or in the "is done" that
\* is cleaned from a reference, the reference may mean either, and the first of
\* them is taken; and an outcome that shares eight words with the one that is
\* named may be taken for it.)
StatedOrderIsKept ==
  verdict = "compiled" /\ AllDistinct =>
    \A s \in stated, i, j \in DOMAIN domains :
      s[3] = s[2] /\ domains[i].text = s[1] /\ s[2] \in {domains[j].text, domains[j].id[1]} => j \in domains[i].waits
=============================================================================
