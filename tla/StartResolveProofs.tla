------------------------- MODULE StartResolveProofs -------------------------
(***************************************************************************)
(* Theorems about the start resolver, for any keys, endpoints and          *)
(* environment names: the mode a start comes to, the names it asks the     *)
(* environment for, and that the core takes every endpoint it resolves.    *)
(*                                                                         *)
(* The argument: the names asked so far, each at most once, are the unset  *)
(* ones before the present source, so that a value taken is the one the    *)
(* start means, and an exhausted family is one that is missing.            *)
(***************************************************************************)
EXTENDS StartResolve, FiniteSetTheorems, TLAPS

Whats == {"key", "url", "environment"}

Entry == [name : Names,
          value : Values("key") \cup Values("url") \cup Values("environment")
                    \cup {None} \cup BOOLEAN]

LookedUp(name) == \E i \in DOMAIN reads : reads[i].name = name

\* Every name was looked up once.
Unique == \A i, j \in DOMAIN reads : reads[i].name = reads[j].name => i = j

\* No name of the family of `what` was looked up from source n on, and the
\* sources before it were all unset.
UnsetUpTo(what, n) ==
    /\ n > 1 => options[what] = None
    /\ \A name \in Family(what) : Rank(name) + 1 < n => Answered(name, None)
    /\ \A name \in Family(what) : LookedUp(name) => Rank(name) + 1 < n

Untouched(names) == \A name \in names : ~LookedUp(name)

-----------------------------------------------------------------------------
(* The sources and their ranks.                                            *)

\* The first source is the option, and the others are the names by rank.
LEMMA SourceAt ==
    ASSUME NEW what \in Whats, NEW n \in 1..Len(Sources(what))
    PROVE  /\ n = 1 => Sources(what)[n] = "option"
           /\ n > 1 => /\ Sources(what)[n] \in Family(what)
                       /\ Rank(Sources(what)[n]) + 1 = n
                       /\ Sources(what)[n] # "option"
BY DEF Whats, Sources, Family, Rank

LEMMA LenSources ==
    /\ Len(Sources("key")) = 3 /\ Len(Sources("url")) = 4 /\ Len(Sources("environment")) = 3
BY DEF Sources

LEMMA LenBound ==
    ASSUME NEW what \in Whats
    PROVE  Len(Sources(what)) \in 3..4
BY LenSources DEF Whats

LEMMA RankBound ==
    ASSUME NEW what \in Whats, NEW name \in Family(what)
    PROVE  Rank(name) \in Nat /\ Rank(name) >= 1 /\ Rank(name) + 1 <= Len(Sources(what))
<1>1. Rank(name) \in Nat /\ Rank(name) >= 1
  BY DEF Whats, Family, Rank
<1>2. Rank(name) + 1 <= Len(Sources(what))
  <2>1. CASE what = "key"
    <3>1. Rank(name) \in 1..2
      BY <2>1 DEF Family, Rank
    <3>2. Len(Sources(what)) = 3
      BY <2>1, LenSources
    <3> QED  BY <3>1, <3>2
  <2>2. CASE what = "url"
    <3>1. Rank(name) \in 1..3
      BY <2>2 DEF Family, Rank
    <3>2. Len(Sources(what)) = 4
      BY <2>2, LenSources
    <3> QED  BY <3>1, <3>2
  <2>3. CASE what = "environment"
    <3>1. Rank(name) \in 1..2
      BY <2>3 DEF Family, Rank
    <3>2. Len(Sources(what)) = 3
      BY <2>3, LenSources
    <3> QED  BY <3>1, <3>2
  <2> QED  BY <2>1, <2>2, <2>3 DEF Whats
<1> QED  BY <1>1, <1>2

LEMMA RankInjective ==
    ASSUME NEW what \in Whats, NEW a \in Family(what), NEW b \in Family(what),
           Rank(a) = Rank(b)
    PROVE  a = b
BY DEF Whats, Family, Rank

LEMMA Appended ==
    ASSUME reads \in Seq(Entry), NEW e \in Entry, reads' = Append(reads, e)
    PROVE  /\ reads' \in Seq(Entry)
           /\ DOMAIN reads' = DOMAIN reads \cup {Len(reads) + 1}
           /\ Len(reads) + 1 \notin DOMAIN reads
           /\ \A i \in DOMAIN reads : reads'[i] = reads[i]
           /\ reads'[Len(reads) + 1] = e
OBVIOUS

\* A start means one value of each kind.
LEMMA MeansOnce ==
    ASSUME Unique, reads \in Seq(Entry), NEW what \in Whats,
           NEW v, NEW w, v # None, w # None, Means(what, v), Means(what, w)
    PROVE  v = w
<1>1. \A name, x, y : Answered(name, x) /\ Answered(name, y) => x = y
  BY DEF Answered, Unique
<1>2. CASE options[what] # None
  BY <1>2 DEF Means, Outranked
<1>3. CASE options[what] = None
  <2>1. PICK a \in Family(what) : Answered(a, v) /\ Outranked(what, a)
    BY <1>3 DEF Means
  <2>2. PICK b \in Family(what) : Answered(b, w) /\ Outranked(what, b)
    BY <1>3 DEF Means
  <2>3. Rank(a) = Rank(b)
    <3>1. ~(Rank(a) < Rank(b)) /\ ~(Rank(b) < Rank(a))
      BY <1>1, <2>1, <2>2 DEF Outranked
    <3>2. Rank(a) \in Nat /\ Rank(b) \in Nat
      BY DEF Whats, Family, Rank
    <3> QED  BY <3>1, <3>2
  <2> QED  BY <1>1, <2>1, <2>2, <2>3, RankInjective
<1> QED  BY <1>2, <1>3

LEMMA MeansOrMissing ==
    ASSUME Unique, reads \in Seq(Entry), NEW what \in Whats, NEW v, v # None, Means(what, v)
    PROVE  ~Missing(what)
BY DEF Unique, Means, Missing, Answered, Outranked

-----------------------------------------------------------------------------
(* LazyReads, one name at a time.                                          *)

\* The answer to name can matter.
Matters(name) ==
    /\ \A what \in Whats : name \in Family(what) => Outranked(what, name)
    /\ name \in Family("url") => \E k \in ProjectKeys : Means("key", k)
    /\ name \in Family("environment") \cup {Retired} => Missing("key")
    /\ name = Retired => Missing("environment")

LEMMA LazyByName == LazyReads <=> Unique /\ \A n : LookedUp(n) => Matters(n)
<1>1. ASSUME LazyReads PROVE Unique /\ \A name : LookedUp(name) => Matters(name)
  BY <1>1 DEF LazyReads, Unique, LookedUp, Matters, Whats
<1>2. ASSUME Unique, \A name : LookedUp(name) => Matters(name) PROVE LazyReads
  BY <1>2 DEF LazyReads, Unique, LookedUp, Matters, Whats
<1> QED  BY <1>1, <1>2

-----------------------------------------------------------------------------
(* One source is asked.                                                    *)

\* The option is there to see.
LEMMA AskOption ==
    ASSUME NEW v, NEW what \in Whats, Asked(v), what = What, at = 1
    PROVE  v = options[what] /\ UNCHANGED reads
<1>1. Source = "option"
  BY LenSources, SourceAt DEF Source, Whats
<1> QED  BY <1>1 DEF Asked

\* A name is looked up for the first time, when it can matter.
LEMMA AskName ==
    ASSUME NEW v, NEW what \in Whats, Asked(v), what = What,
           at \in 2..Len(Sources(what)),
           reads \in Seq(Entry), Unique, UnsetUpTo(what, at), LazyReads, UNCHANGED options,
           what = "url" => \E k \in ProjectKeys : Means("key", k),
           what = "environment" => Missing("key")
    PROVE  /\ reads' \in Seq(Entry)
           /\ Unique'
           /\ LazyReads'
           /\ \A name, w : Answered(name, w) => Answered(name, w)'
           /\ \E name \in Family(what) :
                 /\ name = Source
                 /\ Rank(name) + 1 = at
                 /\ Answered(name, v)'
                 /\ Outranked(what, name)'
                 /\ \A n : LookedUp(n)' => LookedUp(n) \/ n = name
<1>1. Len(Sources(what)) \in Nat
  BY LenSources DEF Whats
<1>2. PICK name \in Family(what) :
         name = Source /\ Rank(name) + 1 = at /\ name # "option"
  BY <1>1, SourceAt DEF Source
<1> DEFINE e == [name |-> name, value |-> v]
<1>3. e \in Entry
  <2>1. name \in Names
    BY DEF Whats, Names
  <2>2. v \in Values("key") \cup Values("url") \cup Values("environment") \cup {None}
    BY DEF Asked, Whats
  <2> QED  BY <2>1, <2>2 DEF Entry
<1>4. reads' = Append(reads, e)
  BY <1>2 DEF Asked
<1>5. /\ reads' \in Seq(Entry)
      /\ DOMAIN reads' = DOMAIN reads \cup {Len(reads) + 1}
      /\ Len(reads) + 1 \notin DOMAIN reads
      /\ \A i \in DOMAIN reads : reads'[i] = reads[i]
      /\ reads'[Len(reads) + 1] = e
  BY <1>3, <1>4, Appended
<1>6. \A n, w : Answered(n, w) => Answered(n, w)'
  BY <1>5 DEF Answered
<1>7. Answered(name, v)'
  BY <1>5 DEF Answered
<1>8. reads'[Len(reads) + 1].name = name
  BY <1>5
<1> HIDE DEF e
<1>9. \A i \in DOMAIN reads : reads[i].name # name
  BY <1>1, <1>2, RankBound DEF UnsetUpTo, LookedUp
<1>10. Unique'
  BY <1>5, <1>8, <1>9 DEF Unique
<1>11. Outranked(what, name)'
  <2>1. Outranked(what, name)
    BY <1>1, <1>2, RankBound DEF UnsetUpTo, Outranked
  <2> QED  BY <2>1, <1>6 DEF Outranked
<1>12. \A w \in Whats : \A n : Outranked(w, n) => Outranked(w, n)'
  BY <1>6 DEF Outranked
<1>13. \A w \in Whats : \A x : Means(w, x) => Means(w, x)'
  BY <1>6, <1>12 DEF Means
<1>14. \A w \in Whats : Missing(w) => Missing(w)'
  BY <1>6 DEF Missing
<1>15. \A n : Matters(n) => Matters(n)'
  BY <1>12, <1>13, <1>14 DEF Matters, Whats
<1>16. Matters(name)'
  <2>1. \A w \in Whats : name \in Family(w) => w = what
    BY DEF Whats, Family
  <2>2. name # Retired
    BY DEF Whats, Family, Retired
  <2>3. name \in Family("url") => \E k \in ProjectKeys : Means("key", k)'
    BY <2>1, <1>13 DEF Whats
  <2>4. name \in Family("environment") => Missing("key")'
    BY <2>1, <1>14 DEF Whats
  <2> QED  BY <1>11, <2>1, <2>2, <2>3, <2>4 DEF Matters
<1>17. \A n : LookedUp(n)' => LookedUp(n) \/ n = name
  BY <1>5, <1>8 DEF LookedUp
<1>18. LazyReads'
  <2>1. \A n : LookedUp(n)' => Matters(n)'
    BY <1>15, <1>16, <1>17, LazyByName
  <2>2. (LazyReads <=> Unique /\ \A n : LookedUp(n) => Matters(n))'
    BY LazyByName, PTL
  <2> QED  BY <2>1, <2>2, <1>10
<1> QED  BY <1>2, <1>5, <1>6, <1>7, <1>10, <1>11, <1>17, <1>18

\* Whatever is asked, the answer is the one the source means to give: it is
\* what the start means, or the sources up to here are unset.
LEMMA Ask ==
    ASSUME NEW v, NEW what \in Whats, Asked(v), what = What,
           at \in 1..Len(Sources(what)),
           reads \in Seq(Entry), Unique, UnsetUpTo(what, at), LazyReads, UNCHANGED options,
           what = "url" => \E k \in ProjectKeys : Means("key", k),
           what = "environment" => Missing("key")
    PROVE  /\ reads' \in Seq(Entry)
           /\ Unique'
           /\ LazyReads'
           /\ \A n, w : Answered(n, w) => Answered(n, w)'
           /\ \A n : LookedUp(n)' => LookedUp(n) \/ n \in Family(what)
           /\ v # None => Means(what, v)'
           /\ v = None => \A n \in Nat : n = at + 1 => UnsetUpTo(what, n)'
           /\ v = None /\ at = Len(Sources(what)) => Missing(what)'
<1>1. Len(Sources(what)) \in Nat
  BY LenSources DEF Whats
<1>2. CASE at = 1
  <2>1. v = options[what] /\ UNCHANGED reads
    BY <1>2, AskOption
  <2>2. Unique' /\ LazyReads' /\ reads' \in Seq(Entry)
    BY <2>1 DEF Unique, LazyReads, Outranked, Means, Missing, Answered
  <2>3. \A n, w : Answered(n, w) => Answered(n, w)'
    BY <2>1 DEF Answered
  <2>4. \A n : LookedUp(n)' => LookedUp(n)
    BY <2>1 DEF LookedUp
  <2>5. v # None => Means(what, v)'
    BY <2>1 DEF Means
  <2>6. v = None => \A n \in Nat : n = at + 1 => UnsetUpTo(what, n)'
    BY <1>2, <2>1, <2>4, RankBound DEF UnsetUpTo
  <2>7. at # Len(Sources(what))
    BY <1>2, LenBound
  <2> QED  BY <2>2, <2>3, <2>4, <2>5, <2>6, <2>7
<1>3. CASE at # 1
  <2>1. at \in 2..Len(Sources(what))
    BY <1>1, <1>3
  <2>2. /\ reads' \in Seq(Entry) /\ Unique' /\ LazyReads'
        /\ \A n, w : Answered(n, w) => Answered(n, w)'
    BY <2>1, AskName
  <2>3. PICK name \in Family(what) :
           /\ Rank(name) + 1 = at
           /\ Answered(name, v)'
           /\ Outranked(what, name)'
           /\ \A n : LookedUp(n)' => LookedUp(n) \/ n = name
    BY <2>1, AskName
  <2>4. Means(what, v)'
    BY <2>3 DEF Means
  <2>5. ASSUME v = None, NEW n \in Nat, n = at + 1 PROVE UnsetUpTo(what, n)'
    <3>1. options'[what] = None
      BY <1>1, <2>1 DEF UnsetUpTo
    <3>2. \A m \in Family(what) : Rank(m) + 1 < n => Answered(m, None)'
      BY <1>1, <2>1, <2>2, <2>3, <2>5, RankBound, RankInjective DEF UnsetUpTo
    <3>3. \A m \in Family(what) : LookedUp(m)' => Rank(m) + 1 < n
      BY <1>1, <2>1, <2>3, <2>5, RankBound DEF UnsetUpTo
    <3> QED  BY <3>1, <3>2, <3>3 DEF UnsetUpTo
  <2>6. ASSUME v = None, at = Len(Sources(what)) PROVE Missing(what)'
    <3>1. PICK n \in Nat : n = at + 1
      BY <1>1, <2>1
    <3>2. UnsetUpTo(what, n)'
      BY <2>5, <2>6, <3>1
    <3> QED  BY <1>1, <2>1, <2>6, <3>1, <3>2, RankBound DEF UnsetUpTo, Missing
  <2> QED  BY <2>2, <2>3, <2>4, <2>5, <2>6
<1> QED  BY <1>2, <1>3

-----------------------------------------------------------------------------
(* What the resolver knows in each phase.                                  *)

\* A project key has been picked.
HasKey == key.value \in ProjectKeys /\ Means("key", key.value)

\* An endpoint that is meant and usable has been picked, or none was named.
HasUrl ==
    \/ Missing("url") /\ url.value = DefaultUrl /\ url.source = "channel"
    \/ /\ url.value \in Urls /\ Means("url", url.value) /\ Usable(url.value)
       /\ url.source # "channel"

WhileIgnoring ==
    phase = "ignoredKey" =>
        /\ options.mode = "local"
        /\ at \in 1..3 /\ UnsetUpTo("key", at)
        /\ Untouched(Family("url") \cup Family("environment") \cup {Retired})

WhileKey ==
    phase = "key" =>
        /\ options.mode # "local"
        /\ at \in 1..3 /\ UnsetUpTo("key", at)
        /\ Untouched(Family("url") \cup Family("environment") \cup {Retired})

WhileUrl ==
    phase = "url" =>
        /\ options.mode # "local" /\ HasKey
        /\ at \in 1..4 /\ UnsetUpTo("url", at)

WhileEnvironment ==
    phase = "environment" =>
        /\ options.mode = None /\ Missing("key")
        /\ at \in 1..3 /\ UnsetUpTo("environment", at)
        /\ Untouched({Retired})

WhileRetired ==
    phase = "retired" =>
        /\ options.mode = None /\ Missing("key") /\ Missing("environment")
        /\ Untouched({Retired})

WhileBuild ==
    phase = "build" => options.mode # "local" /\ HasKey /\ HasUrl

Phases ==
    /\ WhileIgnoring /\ WhileKey /\ WhileUrl
    /\ WhileEnvironment /\ WhileRetired /\ WhileBuild

\* The invariant: what has been asked, what is known, and what a start that
\* is over has come to.
IInv ==
    /\ options \in Options
    /\ reads \in Seq(Entry)
    /\ Unique
    /\ LazyReads
    /\ Phases
    /\ FollowsPrecedence
    /\ ResolvedIsAccepted

LEMMA UnlikeFamilies ==
    /\ \A a, b \in Whats : \A n : n \in Family(a) /\ n \in Family(b) => a = b
    /\ \A a \in Whats : Retired \notin Family(a)
BY DEF Whats, Family, Retired

LEMMA InitEstablishes == Init => IInv
<1> SUFFICES ASSUME Init PROVE IInv
  OBVIOUS
<1>1. reads \in Seq(Entry) /\ Unique /\ LazyReads
  BY DEF Init, Unique, LazyReads
<1>2. UnsetUpTo("key", 1) /\ Untouched(Family("url") \cup Family("environment") \cup {Retired})
  BY DEF Init, UnsetUpTo, Untouched, LookedUp, Family, Rank
<1>3. Phases
  BY <1>2 DEF Init, Phases, WhileIgnoring, WhileKey, WhileUrl, WhileEnvironment,
     WhileRetired, WhileBuild
<1> QED  BY <1>1, <1>3 DEF Init, IInv, FollowsPrecedence, ResolvedIsAccepted

\* Asking in the phase `what`: Ask, with its hypotheses from the invariant.
LEMMA AskInPhase ==
    ASSUME IInv, NEW what \in Whats, what = What, NEW v, Asked(v), UNCHANGED options
    PROVE  /\ at \in 1..Len(Sources(what))
           /\ reads' \in Seq(Entry) /\ Unique' /\ LazyReads'
           /\ \A n, w : Answered(n, w) => Answered(n, w)'
           /\ \A n : LookedUp(n)' => LookedUp(n) \/ n \in Family(what)
           /\ v # None => Means(what, v)'
           /\ v = None => \A n \in Nat : n = at + 1 => UnsetUpTo(what, n)'
           /\ v = None /\ at = Len(Sources(what)) => Missing(what)'
<1>1. at \in 1..Len(Sources(what)) /\ UnsetUpTo(what, at)
  <2>1. CASE phase \in {"ignoredKey", "key"}
    <3>1. what = "key"
      BY <2>1 DEF What
    <3>2. Len(Sources(what)) = 3
      BY <3>1, LenSources
    <3> QED  BY <2>1, <3>1, <3>2 DEF IInv, Phases, WhileIgnoring, WhileKey
  <2>2. CASE phase = "url"
    <3>1. what = "url"
      BY <2>2 DEF What
    <3>2. Len(Sources(what)) = 4
      BY <3>1, LenSources
    <3> QED  BY <2>2, <3>1, <3>2 DEF IInv, Phases, WhileUrl
  <2>3. CASE phase = "environment"
    <3>1. what = "environment"
      BY <2>3 DEF What
    <3>2. Len(Sources(what)) = 3
      BY <3>1, LenSources
    <3> QED  BY <2>3, <3>1, <3>2 DEF IInv, Phases, WhileEnvironment
  <2> QED  BY <2>1, <2>2, <2>3 DEF Asked, Picking
<1>2. what = "url" => \E k \in ProjectKeys : Means("key", k)
  BY DEF What, Asked, Picking, IInv, Phases, WhileUrl, HasKey
<1>3. what = "environment" => Missing("key")
  BY DEF What, Asked, Picking, IInv, Phases, WhileEnvironment
<1> QED  BY <1>1, <1>2, <1>3, Ask DEF IInv

\* A start means one value of a kind at most, and none that is missing.
Meanings ==
    \A what \in Whats :
        /\ \A v, w : v # None /\ w # None /\ Means(what, v) /\ Means(what, w) => v = w
        /\ \A v : v # None /\ Means(what, v) => ~Missing(what)

LEMMA MeaningsHold == Unique /\ reads \in Seq(Entry) => Meanings
BY MeansOnce, MeansOrMissing DEF Meanings

LEMMA MeaningsNext == Unique' /\ (reads \in Seq(Entry))' => Meanings'
BY MeaningsHold, PTL

-----------------------------------------------------------------------------
(* One lemma per action: a step preserves the invariant.                   *)

\* The invariant of the next state, when the start is not over yet.
LEMMA NotOver ==
    ASSUME (options \in Options)', (reads \in Seq(Entry))', Unique', LazyReads', Phases',
           phase' # "done"
    PROVE  IInv'
BY DEF IInv, FollowsPrecedence, ResolvedIsAccepted

\* ... and when it is.
LEMMA Over ==
    ASSUME (options \in Options)', (reads \in Seq(Entry))', Unique', LazyReads',
           phase' = "done", FollowsPrecedence', ResolvedIsAccepted'
    PROVE  IInv'
BY DEF IInv, Phases, WhileIgnoring, WhileKey, WhileUrl, WhileEnvironment, WhileRetired,
   WhileBuild

LEMMA UnsetPreserves == IInv /\ Unset => IInv'
<1> SUFFICES ASSUME IInv, Unset PROVE IInv'
  OBVIOUS
<1>1. phase \in Picking /\ Asked(None)
  BY DEF Unset, Asked
<1>2. PICK what \in Whats : what = What
  BY <1>1 DEF Whats, What, Picking
<1>3. UNCHANGED options /\ phase' = phase /\ at' = at + 1 /\ UNCHANGED <<key, url>>
  BY DEF Unset
<1>4. /\ at \in 1..Len(Sources(what))
      /\ reads' \in Seq(Entry) /\ Unique' /\ LazyReads'
      /\ \A n, w : Answered(n, w) => Answered(n, w)'
      /\ \A n : LookedUp(n)' => LookedUp(n) \/ n \in Family(what)
      /\ \A n \in Nat : n = at + 1 => UnsetUpTo(what, n)'
  BY <1>1, <1>2, <1>3, AskInPhase
<1>5. Len(Sources(what)) \in 3..4 /\ at < Len(Sources(what))
  BY <1>2, LenBound DEF Unset
<1>6. UnsetUpTo(what, at)'
  <2>1. PICK n \in Nat : n = at + 1
    BY <1>4, <1>5
  <2>2. UnsetUpTo(what, n)'
    BY <1>4, <2>1
  <2> QED  BY <1>3, <2>1, <2>2 DEF UnsetUpTo
<1>7. at' \in 1..Len(Sources(what))
  BY <1>3, <1>4, <1>5
<1>8. \A names : Untouched(names) /\ names \cap Family(what) = {} => Untouched(names)'
  BY <1>4 DEF Untouched
<1>9. /\ (Family("url") \cup Family("environment") \cup {Retired}) \cap Family("key") = {}
      /\ {Retired} \cap Family("environment") = {}
  BY UnlikeFamilies DEF Whats
<1>10. \A w \in Whats : /\ \A v : Means(w, v) => Means(w, v)'
                        /\ Missing(w) => Missing(w)'
  BY <1>3, <1>4 DEF Whats, Means, Outranked, Missing
<1>11. CASE phase \in {"ignoredKey", "key"}
  <2>1. what = "key"
    BY <1>2, <1>11 DEF What
  <2>2. at' \in 1..3
    BY <1>7, <2>1, LenSources
  <2>3. Untouched(Family("url") \cup Family("environment") \cup {Retired})'
    BY <1>8, <1>9, <1>11, <2>1 DEF IInv, Phases, WhileIgnoring, WhileKey
  <2>4. UnsetUpTo("key", at)'
    BY <1>6, <2>1
  <2>5. Phases'
    BY <1>3, <1>11, <2>2, <2>3, <2>4 DEF IInv, Phases, WhileIgnoring, WhileKey, WhileUrl,
       WhileEnvironment, WhileRetired, WhileBuild
  <2> QED  BY <1>3, <1>4, <1>11, <2>5, NotOver DEF IInv
<1>12. CASE phase = "url"
  <2>1. what = "url"
    BY <1>2, <1>12 DEF What
  <2>2. at' \in 1..4
    BY <1>7, <2>1, LenSources
  <2>3. HasKey'
    BY <1>3, <1>10, <1>12 DEF IInv, Phases, WhileUrl, HasKey, Whats
  <2>4. UnsetUpTo("url", at)'
    BY <1>6, <2>1
  <2>5. Phases'
    BY <1>3, <1>12, <2>2, <2>3, <2>4 DEF IInv, Phases, WhileIgnoring, WhileKey, WhileUrl,
       WhileEnvironment, WhileRetired, WhileBuild
  <2> QED  BY <1>3, <1>4, <1>12, <2>5, NotOver DEF IInv
<1>13. CASE phase = "environment"
  <2>1. what = "environment"
    BY <1>2, <1>13 DEF What
  <2>2. at' \in 1..3
    BY <1>7, <2>1, LenSources
  <2>3. Missing("key")' /\ Untouched({Retired})'
    BY <1>8, <1>9, <1>10, <1>13, <2>1 DEF IInv, Phases, WhileEnvironment, Whats
  <2>4. UnsetUpTo("environment", at)'
    BY <1>6, <2>1
  <2>5. Phases'
    BY <1>3, <1>13, <2>2, <2>3, <2>4 DEF IInv, Phases, WhileIgnoring, WhileKey, WhileUrl,
       WhileEnvironment, WhileRetired, WhileBuild
  <2> QED  BY <1>3, <1>4, <1>13, <2>5, NotOver DEF IInv
<1> QED  BY <1>1, <1>11, <1>12, <1>13 DEF Picking

LEMMA IgnoreKeyPreserves == IInv /\ IgnoreKey => IInv'
<1> SUFFICES ASSUME IInv, IgnoreKey PROVE IInv'
  OBVIOUS
<1>1. PICK v : Asked(v)
  BY DEF IgnoreKey, Taken, Exhausted
<1>2. "key" \in Whats /\ "key" = What /\ UNCHANGED options
  BY DEF IgnoreKey, Whats, What
<1>3. reads' \in Seq(Entry) /\ Unique' /\ LazyReads'
  BY <1>1, <1>2, AskInPhase
<1>4. options.mode = "local" /\ phase' = "done" /\ result' = Local("option")
  BY DEF IgnoreKey, Ends, IInv, Phases, WhileIgnoring
<1>5. FollowsPrecedence' /\ ResolvedIsAccepted'
  BY <1>2, <1>4 DEF FollowsPrecedence, ResolvedIsAccepted, Local
<1> QED  BY <1>2, <1>3, <1>4, <1>5, Over DEF IInv

LEMMA TakeKeyPreserves == IInv /\ TakeKey => IInv'
<1> SUFFICES ASSUME IInv, TakeKey PROVE IInv'
  OBVIOUS
<1>1. PICK v \in Values("key") :
         /\ Taken(v)
         /\ key' = Picked(v)
         /\ IF v \in ForeignKeys THEN Ends(Error("keyFamily")) ELSE GoesOn("url")
  BY DEF TakeKey
<1>2. Asked(v) /\ v # None
  BY <1>1 DEF Taken
<1>3. "key" \in Whats /\ "key" = What /\ UNCHANGED options /\ options.mode # "local"
  BY DEF TakeKey, Whats, What, IInv, Phases, WhileKey
<1>4. /\ reads' \in Seq(Entry) /\ Unique' /\ LazyReads'
      /\ \A n : LookedUp(n)' => LookedUp(n) \/ n \in Family("key")
      /\ Means("key", v)'
  BY <1>2, <1>3, AskInPhase
<1>5. Meanings'
  BY <1>4, MeaningsNext
<1>6. CASE v \in ForeignKeys
  <2>1. phase' = "done" /\ result' = Error("keyFamily")
    BY <1>1, <1>6 DEF Ends
  <2>2. ~Missing("key")' /\ \A k \in ProjectKeys : ~Means("key", k)'
    BY <1>2, <1>4, <1>5, <1>6, NoneAssumption, NamesAssumption DEF Meanings, Whats
  <2>3. FollowsPrecedence' /\ ResolvedIsAccepted'
    BY <1>3, <2>1, <2>2 DEF FollowsPrecedence, ResolvedIsAccepted, Error
  <2> QED  BY <1>3, <1>4, <2>1, <2>3, Over DEF IInv
<1>7. CASE v \notin ForeignKeys
  <2>1. v \in ProjectKeys /\ key'.value = v /\ phase' = "url" /\ at' = 1
    BY <1>1, <1>7 DEF Values, Picked, GoesOn
  <2>2. HasKey'
    BY <1>4, <2>1 DEF HasKey
  <2>3. \A n \in Family("url") : ~LookedUp(n)'
    BY <1>4, UnlikeFamilies DEF Whats, TakeKey, IInv, Phases, WhileKey, Untouched
  <2>4. UnsetUpTo("url", at)'
    <3>1. \A n \in Family("url") : ~(Rank(n) + 1 < 1)
      BY RankBound DEF Whats
    <3> QED  BY <2>1, <2>3, <3>1 DEF UnsetUpTo
  <2>5. Phases'
    BY <1>3, <2>1, <2>2, <2>4 DEF Phases, WhileIgnoring, WhileKey, WhileUrl,
       WhileEnvironment, WhileRetired, WhileBuild
  <2> QED  BY <1>3, <1>4, <2>1, <2>5, NotOver DEF IInv
<1> QED  BY <1>6, <1>7

LEMMA NoKeyPreserves == IInv /\ NoKey => IInv'
<1> SUFFICES ASSUME IInv, NoKey PROVE IInv'
  OBVIOUS
<1>1. /\ "key" \in Whats /\ "key" = What /\ UNCHANGED options /\ options.mode # "local"
      /\ Asked(None) /\ at = Len(Sources("key"))
  BY DEF NoKey, Whats, What, IInv, Phases, WhileKey, Exhausted
<1>2. /\ reads' \in Seq(Entry) /\ Unique' /\ LazyReads'
      /\ \A n : LookedUp(n)' => LookedUp(n) \/ n \in Family("key")
      /\ Missing("key")'
  BY <1>1, AskInPhase
<1>3. Meanings'
  BY <1>2, MeaningsNext
<1>4. CASE options.mode = "remote"
  <2>1. phase' = "done" /\ result' = Error("keyNeeded")
    BY <1>4 DEF NoKey, Ends
  <2>2. \A k \in ProjectKeys : ~Means("key", k)'
    BY <1>2, <1>3, NoneAssumption DEF Meanings, Whats
  <2>3. FollowsPrecedence' /\ ResolvedIsAccepted'
    BY <1>1, <1>4, <2>1, <2>2, NoneAssumption DEF FollowsPrecedence, ResolvedIsAccepted, Error
  <2> QED  BY <1>1, <1>2, <2>1, <2>3, Over DEF IInv
<1>5. CASE options.mode # "remote"
  <2>1. phase' = "environment" /\ at' = 1
    BY <1>5 DEF NoKey, GoesOn
  <2>2. options'.mode = None
    BY <1>1, <1>5 DEF IInv, Options, Modes
  <2>3. \A n \in Family("environment") \cup {Retired} : ~LookedUp(n)'
    BY <1>2, UnlikeFamilies DEF Whats, NoKey, IInv, Phases, WhileKey, Untouched
  <2>4. UnsetUpTo("environment", at)' /\ Untouched({Retired})'
    <3>1. \A n \in Family("environment") : ~(Rank(n) + 1 < 1)
      BY RankBound DEF Whats
    <3> QED  BY <2>1, <2>3, <3>1 DEF UnsetUpTo, Untouched
  <2>5. Phases'
    BY <1>2, <2>1, <2>2, <2>4 DEF Phases, WhileIgnoring, WhileKey, WhileUrl,
       WhileEnvironment, WhileRetired, WhileBuild
  <2> QED  BY <1>1, <1>2, <2>1, <2>5, NotOver DEF IInv
<1> QED  BY <1>4, <1>5

LEMMA TakeEnvironmentPreserves == IInv /\ TakeEnvironment => IInv'
<1> SUFFICES ASSUME IInv, TakeEnvironment PROVE IInv'
  OBVIOUS
<1>1. PICK v \in Values("environment") :
         /\ Taken(v)
         /\ IF v \in DevNames THEN Ends(Local("environment"))
            ELSE IF AsksRetired(v) THEN GoesOn("retired")
            ELSE Ends(Error("noKey"))
  BY DEF TakeEnvironment
<1>2. Asked(v) /\ v # None
  BY <1>1 DEF Taken
<1>3. /\ "environment" \in Whats /\ "environment" = What /\ UNCHANGED options
      /\ options.mode = None /\ Missing("key")
  BY DEF TakeEnvironment, Whats, What, IInv, Phases, WhileEnvironment
<1>4. /\ reads' \in Seq(Entry) /\ Unique' /\ LazyReads'
      /\ \A n, w : Answered(n, w) => Answered(n, w)'
      /\ Means("environment", v)'
  BY <1>2, <1>3, AskInPhase
<1>5. Meanings'
  BY <1>4, MeaningsNext
<1>6. Missing("key")'
  BY <1>3, <1>4 DEF Missing
<1>7. \A k \in ProjectKeys : ~Means("key", k)'
  BY <1>5, <1>6, NoneAssumption DEF Meanings, Whats
<1>8. phase' = "done" /\ result' = IF v \in DevNames THEN Local("environment") ELSE Error("noKey")
  BY <1>1, <1>2 DEF Ends, AsksRetired
<1>9. v \in DevNames <=> \E name \in DevNames : Means("environment", name)'
  BY <1>2, <1>3, <1>4, <1>5, NoneAssumption DEF Meanings
<1>10. FollowsPrecedence'
  <2>1. options'.mode = None /\ None # "local" /\ None # "remote"
    BY <1>3, NoneAssumption
  <2>2. CASE v \in DevNames
    <3>1. result'.mode = "local"
      BY <1>8, <2>2 DEF Local
    <3> QED  BY <1>6, <1>7, <1>9, <2>1, <2>2, <3>1 DEF FollowsPrecedence
  <2>3. CASE v \notin DevNames
    <3>1. result'.mode = "error"
      BY <1>8, <2>3 DEF Error
    <3> QED  BY <1>7, <1>9, <2>1, <2>3, <3>1 DEF FollowsPrecedence
  <2> QED  BY <2>2, <2>3
<1>11. ResolvedIsAccepted'
  BY <1>8 DEF ResolvedIsAccepted, Local, Error
<1> QED  BY <1>3, <1>4, <1>8, <1>10, <1>11, Over DEF IInv

LEMMA NoEnvironmentPreserves == IInv /\ NoEnvironment => IInv'
<1> SUFFICES ASSUME IInv, NoEnvironment PROVE IInv'
  OBVIOUS
<1>1. /\ "environment" \in Whats /\ "environment" = What /\ UNCHANGED options
      /\ options.mode = None /\ Missing("key") /\ Untouched({Retired})
      /\ Asked(None) /\ at = Len(Sources("environment"))
  BY DEF NoEnvironment, Whats, What, IInv, Phases, WhileEnvironment, Exhausted
<1>2. /\ reads' \in Seq(Entry) /\ Unique' /\ LazyReads'
      /\ \A n, w : Answered(n, w) => Answered(n, w)'
      /\ \A n : LookedUp(n)' => LookedUp(n) \/ n \in Family("environment")
      /\ Missing("environment")'
  BY <1>1, AskInPhase
<1>3. phase' = "retired"
  BY DEF NoEnvironment, AsksRetired, GoesOn
<1>4. Missing("key")'
  BY <1>1, <1>2 DEF Missing
<1>5. Untouched({Retired})'
  BY <1>1, <1>2, UnlikeFamilies DEF Untouched
<1>6. Phases'
  BY <1>1, <1>2, <1>3, <1>4, <1>5 DEF Phases, WhileIgnoring, WhileKey, WhileUrl,
     WhileEnvironment, WhileRetired, WhileBuild
<1> QED  BY <1>1, <1>2, <1>3, <1>6, NotOver DEF IInv

LEMMA AskRetiredPreserves == IInv /\ AskRetired => IInv'
<1> SUFFICES ASSUME IInv, AskRetired PROVE IInv'
  OBVIOUS
<1>1. PICK set \in BOOLEAN : reads' = Append(reads, [name |-> Retired, value |-> set])
  BY DEF AskRetired
<1> DEFINE e == [name |-> Retired, value |-> set]
<1>2. e \in Entry
  BY DEF Entry, Names
<1>3. /\ reads' \in Seq(Entry)
      /\ DOMAIN reads' = DOMAIN reads \cup {Len(reads) + 1}
      /\ Len(reads) + 1 \notin DOMAIN reads
      /\ \A i \in DOMAIN reads : reads'[i] = reads[i]
      /\ reads'[Len(reads) + 1] = e
  BY <1>1, <1>2, Appended DEF IInv
<1>4. e.name = Retired
  OBVIOUS
<1> HIDE DEF e
<1>5. /\ UNCHANGED options /\ options.mode = None /\ Missing("key") /\ Missing("environment")
      /\ \A i \in DOMAIN reads : reads[i].name # Retired
  BY DEF AskRetired, IInv, Phases, WhileRetired, Untouched, LookedUp
<1>6. \A n, w : Answered(n, w) => Answered(n, w)'
  BY <1>3 DEF Answered
<1>7. Unique'
  BY <1>3, <1>4, <1>5 DEF IInv, Unique
<1>8. \A w \in Whats : /\ \A v : Means(w, v) => Means(w, v)'
                       /\ Missing(w) => Missing(w)'
  BY <1>5, <1>6 DEF Whats, Means, Outranked, Missing
<1>9. Missing("key")' /\ Missing("environment")'
  BY <1>5, <1>8 DEF Whats
<1>10. LazyReads'
  <2>1. \A n : Matters(n) => Matters(n)'
    BY <1>5, <1>6, <1>8 DEF Matters, Outranked, Whats
  <2>2. Matters(Retired)'
    BY <1>9, UnlikeFamilies DEF Matters, Whats
  <2>3. \A n : LookedUp(n)' => LookedUp(n) \/ n = Retired
    BY <1>3, <1>4 DEF LookedUp
  <2>4. \A n : LookedUp(n)' => Matters(n)'
    BY <2>1, <2>2, <2>3, LazyByName DEF IInv
  <2>5. (LazyReads <=> Unique /\ \A n : LookedUp(n) => Matters(n))'
    BY LazyByName, PTL
  <2> QED  BY <1>7, <2>4, <2>5
<1>11. Meanings'
  BY <1>3, <1>7, MeaningsNext
<1>12. phase' = "done" /\ result' = Error("noKey")
  BY DEF AskRetired, Ends
<1>13. /\ \A k \in ProjectKeys : ~Means("key", k)'
       /\ \A n \in DevNames : ~Means("environment", n)'
  BY <1>9, <1>11, NoneAssumption DEF Meanings, Whats
<1>14. FollowsPrecedence' /\ ResolvedIsAccepted'
  BY <1>5, <1>12, <1>13, NoneAssumption DEF FollowsPrecedence, ResolvedIsAccepted, Error
<1> QED  BY <1>3, <1>5, <1>7, <1>10, <1>12, <1>14, Over DEF IInv

LEMMA TakeUrlPreserves == IInv /\ TakeUrl => IInv'
<1> SUFFICES ASSUME IInv, TakeUrl PROVE IInv'
  OBVIOUS
<1>1. PICK v \in Urls :
         /\ Taken(v)
         /\ url' = Picked(v)
         /\ IF Web(v) /\ v.strict /\ Encrypted(v) THEN GoesOn("build") ELSE Ends(Error("endpoint"))
  BY DEF TakeUrl, Values
<1>2. Asked(v) /\ v # None
  BY <1>1 DEF Taken
<1>3. /\ "url" \in Whats /\ "url" = What /\ UNCHANGED <<options, key>>
      /\ options.mode # "local" /\ HasKey /\ at \in 1..4
  BY DEF TakeUrl, Whats, What, IInv, Phases, WhileUrl
<1>4. /\ reads' \in Seq(Entry) /\ Unique' /\ LazyReads'
      /\ \A n, w : Answered(n, w) => Answered(n, w)'
      /\ Means("url", v)'
  BY <1>2, <1>3, AskInPhase
<1>5. Meanings'
  BY <1>4, MeaningsNext
<1>6. HasKey'
  BY <1>3, <1>4 DEF HasKey, Means, Outranked
<1>7. Usable(v) <=> Web(v) /\ v.strict /\ Encrypted(v)
  BY DEF Usable, Web, Encrypted
<1>8. url'.value = v /\ url'.source # "channel"
  <2>1. Source \in {"option"} \cup Family("url")
    BY <1>3, SourceAt, LenSources DEF Source, Whats
  <2> QED  BY <1>1, <2>1 DEF Picked, Family
<1>9. CASE Usable(v)
  <2>1. phase' = "build" /\ HasUrl'
    BY <1>1, <1>4, <1>7, <1>8, <1>9 DEF GoesOn, HasUrl
  <2>2. Phases'
    BY <1>3, <1>6, <2>1 DEF Phases, WhileIgnoring, WhileKey, WhileUrl, WhileEnvironment,
       WhileRetired, WhileBuild
  <2> QED  BY <1>3, <1>4, <2>1, <2>2, NotOver DEF IInv
<1>10. CASE ~Usable(v)
  <2>1. phase' = "done" /\ result' = Error("endpoint")
    BY <1>1, <1>7, <1>10 DEF Ends
  <2>2. ~Missing("key")' /\ ~Missing("url")'
    BY <1>2, <1>4, <1>5, <1>6, NoneAssumption DEF Meanings, Whats, HasKey
  <2>3. FollowsPrecedence' /\ ResolvedIsAccepted'
    BY <1>3, <1>8, <1>10, <2>1, <2>2 DEF FollowsPrecedence, ResolvedIsAccepted, Error
  <2> QED  BY <1>3, <1>4, <2>1, <2>3, Over DEF IInv
<1> QED  BY <1>9, <1>10

LEMMA NoUrlPreserves == IInv /\ NoUrl => IInv'
<1> SUFFICES ASSUME IInv, NoUrl PROVE IInv'
  OBVIOUS
<1>1. /\ "url" \in Whats /\ "url" = What /\ UNCHANGED <<options, key>>
      /\ options.mode # "local" /\ HasKey /\ Asked(None) /\ at = Len(Sources("url"))
  BY DEF NoUrl, Whats, What, IInv, Phases, WhileUrl, Exhausted
<1>2. /\ reads' \in Seq(Entry) /\ Unique' /\ LazyReads'
      /\ \A n, w : Answered(n, w) => Answered(n, w)'
      /\ Missing("url")'
  BY <1>1, AskInPhase
<1>3. HasKey'
  BY <1>1, <1>2 DEF HasKey, Means, Outranked
<1>4. phase' = "build" /\ HasUrl'
  BY <1>2 DEF NoUrl, GoesOn, HasUrl
<1>5. Phases'
  BY <1>1, <1>3, <1>4 DEF Phases, WhileIgnoring, WhileKey, WhileUrl, WhileEnvironment,
     WhileRetired, WhileBuild
<1> QED  BY <1>1, <1>2, <1>4, <1>5, NotOver DEF IInv

\* The core accepts what the resolver hands it.
LEMMA CoreAccepts ==
    ASSUME IInv, phase = "build"
    PROVE  /\ HostAllowed(url.value, Allowed, DefaultAllowed)
           /\ HostAllowed(url.value, Allowed, {url.value.host} \cup Loopback)
<1>1. HasUrl
  BY DEF IInv, Phases, WhileBuild
<1>2. CASE url.value = DefaultUrl /\ url.source = "channel"
  BY <1>2, DefaultUrlAssumption, NoneAssumption DEF HostAllowed, Allowed, Web
<1>3. CASE Usable(url.value) /\ url.source # "channel"
  BY <1>3 DEF HostAllowed, Allowed, Web, Usable
<1> QED  BY <1>1, <1>2, <1>3 DEF HasUrl

LEMMA BuildPreserves == IInv /\ Build => IInv'
<1> SUFFICES ASSUME IInv, Build PROVE IInv'
  OBVIOUS
<1>1. UNCHANGED <<options, reads, key, url>> /\ phase = "build" /\ phase' = "done"
  BY DEF Build, Ends
<1>2. result' = [mode |-> "remote", why |-> IF options.mode = "remote" THEN "option" ELSE "key"]
  BY <1>1, CoreAccepts DEF Build, Ends
<1>3. options.mode # "local" /\ HasKey /\ HasUrl
  BY <1>1 DEF IInv, Phases, WhileBuild
<1>4. reads' \in Seq(Entry) /\ Unique' /\ LazyReads'
  BY <1>1 DEF IInv, Unique, LazyReads, Outranked, Means, Missing, Answered
<1>5. HasKey' /\ HasUrl'
  BY <1>1, <1>3 DEF HasKey, HasUrl, Means, Outranked, Missing, Answered
<1>6. ~Missing("key")'
  BY <1>4, <1>5, MeaningsNext, NoneAssumption DEF Meanings, HasKey, Whats
<1>7. result'.mode = "remote" /\ result'.why # "invalidConfiguration"
  BY <1>2
<1>8. FollowsPrecedence'
  BY <1>1, <1>3, <1>5, <1>6, <1>7 DEF FollowsPrecedence, HasKey, HasUrl
<1> QED  BY <1>1, <1>4, <1>7, <1>8, Over DEF IInv, ResolvedIsAccepted

LEMMA StutterPreserves == IInv /\ UNCHANGED vars => IInv'
<1> SUFFICES ASSUME IInv, UNCHANGED vars PROVE IInv'
  OBVIOUS
<1>1. UNCHANGED <<options, phase, at, reads, key, url, result>>
  BY DEF vars
<1>2. (options \in Options)' /\ (reads \in Seq(Entry))' /\ Unique' /\ LazyReads'
  BY <1>1 DEF IInv, Unique, LazyReads, Outranked, Means, Missing, Answered
<1>3. /\ \A what, v : Means(what, v)' <=> Means(what, v)
      /\ \A what : Missing(what)' <=> Missing(what)
      /\ \A what, n : UnsetUpTo(what, n)' <=> UnsetUpTo(what, n)
      /\ \A names : Untouched(names)' <=> Untouched(names)
  BY <1>1 DEF Means, Outranked, Missing, UnsetUpTo, Untouched, LookedUp, Answered
<1>4. HasKey' <=> HasKey
  BY <1>1 DEF HasKey, Means, Outranked, Answered
<1>5. HasUrl' <=> HasUrl
  BY <1>1 DEF HasUrl, Means, Missing, Outranked, Answered
<1>6. UnsetUpTo("key", at)' <=> UnsetUpTo("key", at)
  BY <1>1 DEF UnsetUpTo, LookedUp, Answered
<1>7. UnsetUpTo("url", at)' <=> UnsetUpTo("url", at)
  BY <1>1 DEF UnsetUpTo, LookedUp, Answered
<1>8. UnsetUpTo("environment", at)' <=> UnsetUpTo("environment", at)
  BY <1>1 DEF UnsetUpTo, LookedUp, Answered
<1>9. Phases'
  BY <1>1, <1>3, <1>4, <1>5, <1>6, <1>7, <1>8 DEF IInv, Phases, WhileIgnoring, WhileKey,
     WhileUrl, WhileEnvironment, WhileRetired, WhileBuild
<1>10. FollowsPrecedence' /\ ResolvedIsAccepted'
  BY <1>1, <1>3 DEF IInv, FollowsPrecedence, ResolvedIsAccepted
<1> QED  BY <1>2, <1>9, <1>10 DEF IInv

LEMMA Invariance == Spec => []IInv
<1>1. IInv /\ [Next]_vars => IInv'
  BY UnsetPreserves, IgnoreKeyPreserves, TakeKeyPreserves, NoKeyPreserves,
     TakeEnvironmentPreserves, NoEnvironmentPreserves, AskRetiredPreserves,
     TakeUrlPreserves, NoUrlPreserves, BuildPreserves, StutterPreserves DEF Next
<1> QED  BY <1>1, InitEstablishes, PTL DEF Spec

-----------------------------------------------------------------------------
(* What follows for every start.                                           *)

\* Whatever keys, endpoints and names there are, a start comes to what the
\* precedence of its sources says, and a lost key never to local decisions.
THEOREM PrecedenceFollowed == Spec => []FollowsPrecedence
<1>1. IInv => FollowsPrecedence
  BY DEF IInv
<1> QED  BY <1>1, Invariance, PTL

\* The environment is only asked for a name that can still matter, and once.
THEOREM ReadsAreLazy == Spec => []LazyReads
<1>1. IInv => LazyReads
  BY DEF IInv
<1> QED  BY <1>1, Invariance, PTL

\* The core never refuses an endpoint the resolver took.
THEOREM ResolvedAlwaysAccepted == Spec => []ResolvedIsAccepted
<1>1. IInv => ResolvedIsAccepted
  BY DEF IInv
<1> QED  BY <1>1, Invariance, PTL

-----------------------------------------------------------------------------
(* Types. What was looked up is typed in the invariant already.            *)

\* The source asked next is one of the phase's.
LEMMA SourceTyped ==
    ASSUME IInv, phase \in Picking
    PROVE  /\ What \in Whats
           /\ at \in 1..Len(Sources(What))
           /\ Source \in {"option"} \cup Family(What)
<1>1. What \in Whats
  BY DEF What, Picking, Whats
<1>2. at \in 1..Len(Sources(What))
  <2>1. CASE phase \in {"ignoredKey", "key"}
    BY <2>1, LenSources DEF What, IInv, Phases, WhileIgnoring, WhileKey
  <2>2. CASE phase = "url"
    BY <2>2, LenSources DEF What, IInv, Phases, WhileUrl
  <2>3. CASE phase = "environment"
    BY <2>3, LenSources DEF What, IInv, Phases, WhileEnvironment
  <2> QED  BY <2>1, <2>2, <2>3 DEF Picking
<1>3. Source \in {"option"} \cup Family(What)
  <2>1. PICK what \in Whats : what = What
    BY <1>1
  <2>2. PICK n \in 1..Len(Sources(what)) : n = at
    BY <1>2, <2>1
  <2>3. n = 1 \/ n > 1
    BY <2>1, LenBound
  <2> QED  BY <2>1, <2>2, <2>3, SourceAt DEF Source
<1> QED  BY <1>1, <1>2, <1>3

PhaseTypes  == Picking \cup {"retired", "build", "done"}
KeyTypes    == {None} \cup [value : Values("key"), source : {"option"} \cup Family("key")]
UrlTypes    == {None} \cup [value : Urls \cup {DefaultUrl},
                            source : {"option", "channel"} \cup Family("url")]
WarnTypes   == SUBSET (({"legacy"} \X Legacy) \cup ({"ignored"} \X ({"option"} \cup Family("key"))))
ResultTypes == {None} \cup Outcomes

\* A start that is over has its outcome, and a remote one what it needs.
Ended ==
    /\ phase = "done" <=> result # None
    /\ phase \in {"url", "build"} => key # None
    /\ phase = "build" => url # None
    /\ phase = "done" /\ result.mode = "remote" => None \notin {key, url}

\* What TypeOK says beyond the invariant.
Typed ==
    /\ phase \in PhaseTypes
    /\ at \in 1..4
    /\ key \in KeyTypes
    /\ url \in UrlTypes
    /\ warned \in WarnTypes
    /\ result \in ResultTypes

LEMMA TypedIsTypeOK == IInv /\ Typed /\ Ended => TypeOK
<1> SUFFICES ASSUME IInv, Typed, Ended PROVE TypeOK
  OBVIOUS
<1>1. options \in Options /\ reads \in Seq(Entry)
  BY DEF IInv
<1>2. \A s \in Seq(Entry) : \A i \in DOMAIN s : s[i] \in Entry
  OBVIOUS
<1>3. warned \subseteq ({"legacy"} \X Legacy) \cup ({"ignored"} \X ({"option"} \cup Family("key")))
  BY DEF Typed, WarnTypes
<1>4. \A i \in DOMAIN reads : reads[i].name \in Names
  BY <1>1, <1>2 DEF Entry
<1> QED  BY <1>1, <1>3, <1>4 DEF Typed, TypeOK, PhaseTypes, KeyTypes, UrlTypes, ResultTypes, Ended

LEMMA OutcomesTyped ==
    /\ \A why \in {"keyFamily", "keyNeeded", "noKey", "endpoint"} : Error(why) \in ResultTypes
    /\ \A why \in {"option", "environment"} : Local(why) \in ResultTypes
    /\ \A why \in {"option", "key"} : [mode |-> "remote", why |-> why] \in ResultTypes
BY DEF Error, Local, ResultTypes, Outcomes

LEMMA PhasesTyped ==
    {"url", "environment", "retired", "build", "done"} \subseteq PhaseTypes
BY DEF PhaseTypes, Picking

LEMMA WarnTyped == \A w \in WarnTypes : w \cup Warn \in WarnTypes /\ {} \in WarnTypes
BY DEF WarnTypes, Warn

LEMMA TypedPreserved == IInv /\ Typed /\ [Next]_vars => Typed'
<1> SUFFICES ASSUME IInv, Typed, [Next]_vars PROVE Typed'
  OBVIOUS
<1> USE PhasesTyped, OutcomesTyped DEF Picking
<1>1. CASE Unset
  <2>1. What \in Whats
    BY <1>1, SourceTyped DEF Unset, Asked
  <2>2. PICK n \in 3..4 : n = Len(Sources(What))
    BY <2>1, LenBound
  <2>3. at < n /\ at' = at + 1
    BY <1>1, <2>2 DEF Unset
  <2>4. at' \in 1..4
    BY <2>3 DEF Typed
  <2> QED  BY <1>1, <2>4 DEF Unset, Typed
<1>2. CASE IgnoreKey
  <2>1. Source \in {"option"} \cup Family("key")
    BY <1>2, SourceTyped DEF IgnoreKey, What
  <2>2. {<<"ignored", Source>>} \in WarnTypes
    BY <2>1 DEF WarnTypes
  <2>3. warned' \in WarnTypes
    BY <1>2, <2>2 DEF IgnoreKey, Typed
  <2> QED  BY <1>2, <2>3 DEF IgnoreKey, Ends, Typed
<1>3. CASE TakeKey
  <2>1. Source \in {"option"} \cup Family("key")
    BY <1>3, SourceTyped DEF TakeKey, What
  <2>2. \A v \in Values("key") : Picked(v) \in KeyTypes
    BY <2>1 DEF Picked, KeyTypes
  <2>3. PICK v \in Values("key") :
           /\ key' = Picked(v)
           /\ IF v \in ForeignKeys
                THEN Ends(Error("keyFamily")) /\ warned' = {}
                ELSE GoesOn("url") /\ warned' = warned \cup Warn
    BY <1>3 DEF TakeKey
  <2>4. key' \in KeyTypes /\ UNCHANGED url
    BY <1>3, <2>2, <2>3 DEF TakeKey
  <2>5. warned' \in WarnTypes
    BY <2>3, WarnTyped DEF Typed
  <2> QED  BY <2>3, <2>4, <2>5 DEF Ends, GoesOn, Typed
<1>4. CASE NoKey
  BY <1>4 DEF NoKey, Ends, GoesOn, Typed
<1>5. CASE TakeEnvironment
  BY <1>5 DEF TakeEnvironment, Ends, GoesOn, Typed
<1>6. CASE NoEnvironment
  BY <1>6 DEF NoEnvironment, Ends, GoesOn, Typed
<1>7. CASE AskRetired
  BY <1>7 DEF AskRetired, Ends, Typed
<1>8. CASE TakeUrl
  <2>1. Source \in {"option"} \cup Family("url")
    BY <1>8, SourceTyped DEF TakeUrl, What
  <2>2. \A v \in Values("url") : Picked(v) \in UrlTypes
    BY <2>1 DEF Picked, UrlTypes, Values
  <2>3. PICK v \in Values("url") :
           /\ url' = Picked(v)
           /\ IF Web(v) /\ v.strict /\ Encrypted(v)
                THEN GoesOn("build") /\ warned' = warned \cup Warn
                ELSE Ends(Error("endpoint")) /\ warned' = {}
    BY <1>8 DEF TakeUrl
  <2>4. url' \in UrlTypes /\ UNCHANGED key
    BY <1>8, <2>2, <2>3 DEF TakeUrl
  <2>5. warned' \in WarnTypes
    BY <2>3, WarnTyped DEF Typed
  <2> QED  BY <2>3, <2>4, <2>5 DEF Ends, GoesOn, Typed
<1>9. CASE NoUrl
  <2>1. [value |-> DefaultUrl, source |-> "channel"] \in UrlTypes
    BY DEF UrlTypes
  <2> QED  BY <1>9, <2>1 DEF NoUrl, GoesOn, Typed
<1>10. CASE Build
  <2>1. PICK why \in {"option", "key"} : result' = [mode |-> "remote", why |-> why]
    BY <1>10, CoreAccepts DEF Build, Ends
  <2>2. result' \in ResultTypes
    BY <2>1
  <2> QED  BY <1>10, <2>2 DEF Build, Ends, Typed
<1>11. CASE UNCHANGED vars
  BY <1>11 DEF vars, Typed
<1> QED
  BY <1>1, <1>2, <1>3, <1>4, <1>5, <1>6, <1>7, <1>8, <1>9, <1>10, <1>11 DEF Next

LEMMA PickedCounts ==
    ASSUME IInv, phase \in {"key", "url"}, NEW v \in Values(What)
    PROVE  Picked(v) # None /\ Picked(v).source = Source
<1>1. Source \in {"option"} \cup Family(What) /\ What \in {"key", "url"}
  BY SourceTyped DEF Picking, What
<1>2. Picked(v) \in Pick
  BY <1>1 DEF Picked, Pick, Values
<1> QED  BY <1>2, PickAssumption DEF Picked

LEMMA EndedPreserved == IInv /\ Ended /\ [Next]_vars => Ended'
<1> SUFFICES ASSUME IInv, Ended, [Next]_vars PROVE Ended'
  OBVIOUS
<1>1. /\ \A why \in {"keyFamily", "keyNeeded", "noKey", "endpoint", "invalidConfiguration"} :
            Error(why) # None /\ Error(why).mode # "remote"
      /\ \A why \in {"option", "environment"} : Local(why) # None /\ Local(why).mode # "remote"
  BY PickAssumption DEF Error, Local, Outcomes
<1>2. CASE Unset
  BY <1>2 DEF Unset, Asked, Picking, Ended
<1>3. CASE IgnoreKey
  BY <1>1, <1>3 DEF IgnoreKey, Ends, Ended
<1>4. CASE TakeKey
  <2>1. PICK v \in Values("key") :
           /\ key' = Picked(v)
           /\ IF v \in ForeignKeys THEN Ends(Error("keyFamily")) ELSE GoesOn("url")
    BY <1>4 DEF TakeKey
  <2>2. Picked(v) # None
    BY <1>4, PickedCounts DEF TakeKey, What
  <2> QED  BY <1>1, <1>4, <2>1, <2>2 DEF TakeKey, Ends, GoesOn, Ended
<1>5. CASE NoKey
  BY <1>1, <1>5 DEF NoKey, Ends, GoesOn, Ended
<1>6. CASE TakeEnvironment
  BY <1>1, <1>6 DEF TakeEnvironment, Ends, GoesOn, Ended
<1>7. CASE NoEnvironment
  BY <1>1, <1>7 DEF NoEnvironment, Ends, GoesOn, Ended
<1>8. CASE AskRetired
  BY <1>1, <1>8 DEF AskRetired, Ends, Ended
<1>9. CASE TakeUrl
  <2>1. PICK v \in Values("url") :
           /\ url' = Picked(v)
           /\ IF Web(v) /\ v.strict /\ Encrypted(v)
                THEN GoesOn("build") ELSE Ends(Error("endpoint"))
    BY <1>9 DEF TakeUrl
  <2>2. Picked(v) # None
    BY <1>9, PickedCounts DEF TakeUrl, What
  <2> QED  BY <1>1, <1>9, <2>1, <2>2 DEF TakeUrl, Ends, GoesOn, Ended
<1>10. CASE NoUrl
  <2>1. [value |-> DefaultUrl, source |-> "channel"] # None
    BY PickAssumption DEF Pick
  <2> QED  BY <1>10, <2>1 DEF NoUrl, GoesOn, Ended
<1>11. CASE Build
  <2>1. PICK why \in {"option", "key"} : Ends([mode |-> "remote", why |-> why])
    BY <1>11, CoreAccepts DEF Build
  <2>2. [mode |-> "remote", why |-> why] # None
    BY PickAssumption DEF Outcomes
  <2> QED  BY <1>11, <2>1, <2>2 DEF Build, Ends, Ended
<1>12. CASE UNCHANGED vars
  BY <1>12 DEF vars, Ended
<1> QED
  BY <1>2, <1>3, <1>4, <1>5, <1>6, <1>7, <1>8, <1>9, <1>10, <1>11, <1>12 DEF Next

\* Every variable of the resolver keeps its type, legacy warnings name legacy
\* names, and a start that is over has one of the outcomes, a remote one with
\* a key and an endpoint, for any keys, endpoints and environment names.
THEOREM TypeCorrect == Spec => []TypeOK
<1>1. Init => Typed
  BY DEF Init, Typed, PhaseTypes, KeyTypes, UrlTypes, WarnTypes, ResultTypes, Picking
<1>2. Init => Ended
  BY NoneAssumption DEF Init, Ended
<1> QED
  BY <1>1, <1>2, Invariance, TypedPreserved, EndedPreserved, TypedIsTypeOK, PTL DEF Spec

-----------------------------------------------------------------------------
(* Warnings: of the legacy names whose values are used, at any time.       *)

Used == {p.source : p \in {key, url} \ {None}} \cap Legacy

\* In local mode the key is all that is looked for, and nothing is used.
WarnsOfIgnored ==
    options.mode = "local" =>
        /\ phase \in {"ignoredKey", "done"}
        /\ phase = "ignoredKey" => warned = {}
        /\ phase = "done" => IF Missing("key") THEN warned = {} ELSE \E w : warned = {w}

WarnsOfUsed ==
    options.mode # "local" =>
        /\ phase # "ignoredKey"
        /\ (phase = "done" /\ result.mode = "error") \/ warned = {"legacy"} \X Used
        /\ phase \in {"key", "environment", "retired"} => key = None
        /\ phase \in {"key", "url", "environment", "retired"} => url = None

Warns == WarnsOfIgnored /\ WarnsOfUsed

\* Every step keeps what the warnings say.
LEMMA WarnsPreserved == IInv /\ IInv' /\ Warns /\ [Next]_vars => Warns'
<1> SUFFICES ASSUME IInv, IInv', Warns, [Next]_vars PROVE Warns'
  OBVIOUS
<1>1. CASE Unset
  BY <1>1 DEF Unset, Asked, Picking, Warns, WarnsOfIgnored, WarnsOfUsed, Used
<1>2. CASE IgnoreKey
  <2>1. options.mode = "local" /\ UNCHANGED options /\ phase' = "done" /\ warned = {}
    BY <1>2 DEF IgnoreKey, Ends, IInv, Phases, WhileIgnoring, Warns, WarnsOfIgnored
  <2>2. "key" \in Whats /\ "key" = What
    BY <1>2 DEF IgnoreKey, Whats, What
  <2>3. CASE \E v \in Values("key") : Taken(v) /\ warned' = {<<"ignored", Source>>}
    <3>1. PICK v \in Values("key") : Taken(v) /\ warned' = {<<"ignored", Source>>}
      BY <2>3
    <3>2. v # None /\ Means("key", v)'
      BY <2>1, <2>2, <3>1, AskInPhase DEF Taken
    <3>3. ~Missing("key")'
      BY <3>2, MeaningsNext DEF IInv, Meanings, Whats
    <3> QED  BY <2>1, <3>1, <3>3 DEF Warns, WarnsOfIgnored, WarnsOfUsed
  <2>4. CASE Exhausted /\ UNCHANGED warned
    <3>1. Missing("key")'
      BY <2>1, <2>2, <2>4, AskInPhase DEF Exhausted
    <3> QED  BY <2>1, <2>4, <3>1 DEF Warns, WarnsOfIgnored, WarnsOfUsed
  <2> QED  BY <1>2, <2>3, <2>4 DEF IgnoreKey
<1>3. CASE TakeKey
  <2>1. options.mode # "local" /\ UNCHANGED <<options, url>>
    BY <1>3 DEF TakeKey, IInv, Phases, WhileKey
  <2>2. PICK v \in Values("key") :
           /\ key' = Picked(v)
           /\ IF v \in ForeignKeys
                THEN Ends(Error("keyFamily")) /\ warned' = {}
                ELSE GoesOn("url") /\ warned' = warned \cup Warn
    BY <1>3 DEF TakeKey
  <2>3. key' # None /\ key'.source = Source
    BY <1>3, <2>2, PickedCounts DEF TakeKey, What
  <2>4. CASE v \in ForeignKeys
    BY <2>1, <2>2, <2>4 DEF Ends, Error, Warns, WarnsOfIgnored, WarnsOfUsed
  <2>5. CASE v \notin ForeignKeys
    <3>1. key = None /\ url = None /\ phase' = "url" /\ warned = {"legacy"} \X Used
      BY <1>3, <2>1, <2>2, <2>5 DEF TakeKey, GoesOn, Warns, WarnsOfUsed
    <3>2. Used = {} /\ Used' = {Source} \cap Legacy
      BY <2>1, <2>3, <3>1 DEF Used
    <3>3. warned' = {"legacy"} \X Used'
      BY <2>2, <2>5, <3>1, <3>2 DEF Warn
    <3> QED  BY <2>1, <3>1, <3>3 DEF Warns, WarnsOfIgnored, WarnsOfUsed
  <2> QED  BY <2>4, <2>5
<1>4. CASE NoKey
  <2>1. options.mode # "local" /\ UNCHANGED <<options, key, url, warned>> /\ phase = "key"
    BY <1>4 DEF NoKey, IInv, Phases, WhileKey
  <2>2. \/ phase' = "done" /\ result' = Error("keyNeeded")
        \/ phase' = "environment"
    BY <1>4 DEF NoKey, Ends, GoesOn
  <2> QED  BY <2>1, <2>2 DEF Error, Warns, WarnsOfIgnored, WarnsOfUsed, Used
<1>5. CASE TakeEnvironment
  <2>1. options.mode # "local" /\ UNCHANGED <<options, key, url, warned>> /\ phase = "environment"
    BY <1>5, NoneAssumption DEF TakeEnvironment, IInv, Phases, WhileEnvironment
  <2>2. phase' \in {"done", "retired"}
    BY <1>5 DEF TakeEnvironment, Ends, GoesOn
  <2> QED  BY <2>1, <2>2 DEF Warns, WarnsOfIgnored, WarnsOfUsed, Used
<1>6. CASE NoEnvironment
  <2>1. options.mode # "local" /\ UNCHANGED <<options, key, url, warned>> /\ phase = "environment"
    BY <1>6, NoneAssumption DEF NoEnvironment, IInv, Phases, WhileEnvironment
  <2>2. phase' \in {"done", "retired"}
    BY <1>6 DEF NoEnvironment, Ends, GoesOn
  <2> QED  BY <2>1, <2>2 DEF Warns, WarnsOfIgnored, WarnsOfUsed, Used
<1>7. CASE AskRetired
  <2>1. options.mode # "local" /\ UNCHANGED <<options, key, url, warned>> /\ phase = "retired"
    BY <1>7, NoneAssumption DEF AskRetired, IInv, Phases, WhileRetired
  <2>2. phase' = "done"
    BY <1>7 DEF AskRetired, Ends
  <2> QED  BY <2>1, <2>2 DEF Warns, WarnsOfIgnored, WarnsOfUsed, Used
<1>8. CASE TakeUrl
  <2>1. options.mode # "local" /\ UNCHANGED <<options, key>>
    BY <1>8 DEF TakeUrl, IInv, Phases, WhileUrl
  <2>2. PICK v \in Values("url") :
           /\ url' = Picked(v)
           /\ IF Web(v) /\ v.strict /\ Encrypted(v)
                THEN GoesOn("build") /\ warned' = warned \cup Warn
                ELSE Ends(Error("endpoint")) /\ warned' = {}
    BY <1>8 DEF TakeUrl
  <2>3. url' # None /\ url'.source = Source
    BY <1>8, <2>2, PickedCounts DEF TakeUrl, What
  <2>4. CASE ~(Web(v) /\ v.strict /\ Encrypted(v))
    BY <2>1, <2>2, <2>4 DEF Ends, Error, Warns, WarnsOfIgnored, WarnsOfUsed
  <2>5. CASE Web(v) /\ v.strict /\ Encrypted(v)
    <3>1. url = None /\ phase' = "build" /\ warned = {"legacy"} \X Used
      BY <1>8, <2>1, <2>2, <2>5 DEF TakeUrl, GoesOn, Warns, WarnsOfUsed
    <3>2. Used' = Used \cup ({Source} \cap Legacy)
      BY <2>1, <2>3, <3>1 DEF Used
    <3>3. warned' = {"legacy"} \X Used'
      BY <2>2, <2>5, <3>1, <3>2 DEF Warn
    <3> QED  BY <2>1, <3>1, <3>3 DEF Warns, WarnsOfIgnored, WarnsOfUsed
  <2> QED  BY <2>4, <2>5
<1>9. CASE NoUrl
  <2>1. /\ options.mode # "local" /\ UNCHANGED <<options, key, warned>>
        /\ phase = "url" /\ phase' = "build"
        /\ url' = [value |-> DefaultUrl, source |-> "channel"]
    BY <1>9 DEF NoUrl, GoesOn, IInv, Phases, WhileUrl
  <2>2. url = None /\ warned = {"legacy"} \X Used
    BY <2>1 DEF Warns, WarnsOfUsed
  <2>3. Used' = Used
    BY <2>1, <2>2 DEF Used, Legacy
  <2> QED  BY <2>1, <2>2, <2>3 DEF Warns, WarnsOfIgnored, WarnsOfUsed
<1>10. CASE Build
  <2>1. options.mode # "local" /\ UNCHANGED <<options, key, url, warned>> /\ phase = "build"
    BY <1>10 DEF Build, IInv, Phases, WhileBuild
  <2>2. phase' = "done"
    BY <1>10 DEF Build, Ends
  <2> QED  BY <2>1, <2>2 DEF Warns, WarnsOfIgnored, WarnsOfUsed, Used
<1>11. CASE UNCHANGED vars
  <2>1. Missing("key")' <=> Missing("key")
    BY <1>11 DEF vars, Missing, Answered
  <2> QED  BY <1>11, <2>1 DEF vars, Warns, WarnsOfIgnored, WarnsOfUsed, Used
<1> QED
  BY <1>1, <1>2, <1>3, <1>4, <1>5, <1>6, <1>7, <1>8, <1>9, <1>10, <1>11 DEF Next

\* A start that succeeds has warned of exactly the legacy names whose values
\* it uses, or of the one key it ignores, whatever was set beside them.
THEOREM WarnsExactly == Spec => []WarnsOfWhatItUses
<1>1. Init => Warns
  BY DEF Init, Warns, WarnsOfIgnored, WarnsOfUsed, Used, Options
<1>2. Warns => WarnsOfWhatItUses
  <2>1. Cardinality({}) = 0 /\ \A w : Cardinality({w}) = 1
    BY FS_EmptySet, FS_Singleton
  <2> QED  BY <2>1 DEF Warns, WarnsOfIgnored, WarnsOfUsed, WarnsOfWhatItUses, Used
<1> QED  BY <1>1, <1>2, Invariance, WarnsPreserved, PTL DEF Spec
=============================================================================
