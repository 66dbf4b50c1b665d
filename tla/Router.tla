------------------------------- MODULE Router -------------------------------
(***************************************************************************)
(* Router::GetRouterNode of workflow-http: how a registered path, with     *)
(* parameters (/:field or /{field}) and a wildcard (star), is matched with *)
(* the path of a request, and what that is meant to compute.  A path is a  *)
(* sequence of characters.  baseUrl, which nothing sets, is empty, and     *)
(* URLParser has already cut the query off.                                *)
(***************************************************************************)
EXTENDS Integers, SequencesExt

\* Strendswith.
EndsWith(str, end) ==
  /\ Len(str) >= Len(end)
  /\ SubSeq(str, Len(str) - Len(end) + 1, Len(str)) = end

\* The first position from i on that is a slash, or the one behind the end.
SegmentEnd(s, i) ==
  Min({j \in i .. Len(s) : s[j] = "/"} \cup {Max({i, Len(s) + 1})})

NoMatch == [match |-> FALSE, params |-> <<>>]

\* Mutant: a parameter takes one character.
ParamEndShort(path, v) == Min({v + 1, Len(path) + 1})

\* Where the value of a parameter that starts at v ends.
ParamEnd(path, v) == SegmentEnd(path, v)

(* The loop over *kp and *vp from positions k and v on: whether the rest   *)
(* matches, and the values of its parameters.                              *)
Match(pattern, path) ==
  LET m[k \in 1 .. Len(pattern) + 1, v \in 1 .. Len(path) + 1] ==
        IF k > Len(pattern) \/ v > Len(path)
        THEN [match |-> k > Len(pattern) /\ v > Len(path), params |-> <<>>]
        ELSE IF pattern[k] = "*"
        THEN [match |-> EndsWith(SubSeq(path, v, Len(path)),
                                 SubSeq(pattern, k + 1, Len(pattern))),
              params |-> <<>>]
        ELSE IF pattern[k] # path[v]
        THEN NoMatch
        ELSE IF /\ pattern[k] = "/"
                /\ k < Len(pattern)
                /\ pattern[k + 1] \in {":", "{"}
        THEN LET end == ParamEnd(path, v + 1)
                 rest == m[SegmentEnd(pattern, k + 2), end]
             IN [rest EXCEPT !.params = <<SubSeq(path, v + 1, end - 1)>> \o @]
        ELSE m[k + 1, v + 1]
  IN m[1, 1]

-----------------------------------------------------------------------------
(* The definition to compare with: patterns and paths are compared segment *)
(* by segment.                                                             *)

Segments(s) ==
  LET cuts == <<0>> \o SetToSortSeq({i \in DOMAIN s : s[i] = "/"}, <)
                    \o <<Len(s) + 1>>
  IN [i \in 1 .. Len(cuts) - 1 |-> SubSeq(s, cuts[i] + 1, cuts[i + 1] - 1)]

\* The i-th segment is a parameter; the one before the first slash is not.
IsParam(segs, i) == i > 1 /\ segs[i] # <<>> /\ segs[i][1] \in {":", "{"}

\* Segment i of a path is what the pattern asks for.
Fits(patternSegs, pathSegs, i) ==
  IsParam(patternSegs, i) \/ patternSegs[i] = pathSegs[i]

\* Positions of wildcards: stars outside parameters.
Wildcards(pattern) ==
  {j \in DOMAIN pattern :
     /\ pattern[j] = "*"
     /\ LET before == Segments(SubSeq(pattern, 1, j))
        IN ~IsParam(before, Len(before))}

(* A path is described by a pattern without wildcard if both have the same *)
(* segments, except that a parameter stands for any; with a wildcard, if   *)
(* it can be split in three: what the pattern before the first wildcard    *)
(* describes, at least one character, and an end that reads, character by  *)
(* character, like the pattern behind the wildcard.                        *)
Describes(pattern, path) ==
  LET whole(p, q) ==
        LET ps == Segments(p)
            qs == Segments(q)
        IN Len(ps) = Len(qs) /\ \A i \in DOMAIN ps : Fits(ps, qs, i)
  IN
  IF Wildcards(pattern) = {} THEN whole(pattern, path)
  ELSE LET star == Min(Wildcards(pattern)) IN
       \E n \in 0 .. Len(path) - 1 :
         /\ whole(SubSeq(pattern, 1, star - 1), SubSeq(path, 1, n))
         /\ EndsWith(SubSeq(path, n + 1, Len(path)),
                     SubSeq(pattern, star + 1, Len(pattern)))

\* The values of the parameters: the segments of the path at their places.
Values(pattern, path) ==
  LET fixed == SubSeq(pattern, 1, Min(Wildcards(pattern) \cup {Len(pattern) + 1}) - 1)
      ps == Segments(fixed)
      places == SetToSortSeq({i \in DOMAIN ps : IsParam(ps, i)}, <)
  IN [n \in DOMAIN places |-> Segments(path)[places[n]]]

\* The matching of a pattern with a path is what it is meant to be.
MatchExact(pattern, path) ==
  LET m == Match(pattern, path)
  IN /\ m.match <=> Describes(pattern, path)
     /\ m.match => m.params = Values(pattern, path)
=============================================================================
