---------------------------- MODULE MarkRelease ----------------------------
(***************************************************************************)
(* What a frame heap promises: the regions it hands out are disjoint, and  *)
(* stay their owner's until they are released, with all the others of      *)
(* their side or with all those handed out since a mark.                   *)
(***************************************************************************)
EXTENDS Integers, Sequences

VARIABLES
    held,  \* the regions handed out: [at, size, side]
    marks  \* the marks, last first: [id, held]

markVars == <<held, marks>>

Disjoint(r, s) == r.at + r.size <= s.at \/ s.at + s.size <= r.at
Fits(r) == \A s \in held : Disjoint(r, s)
Of(S, side) == {r \in S : r.side = side}

MarkInit == held = {} /\ marks = << >>

(* One region more, where nothing is held. *)
Grow == \E r \in held' : held' = held \cup {r} /\ Fits(r)

Get == Grow /\ UNCHANGED marks

Resize ==
    /\ \E r \in held, s \in held' :
          /\ held' = (held \ {r}) \cup {s}
          /\ \A t \in held \ {r} : Disjoint(s, t)
    /\ UNCHANGED marks

(* The mark itself takes a region. *)
Mark ==
    /\ Grow
    /\ marks' # << >>
    /\ marks' = <<[id |-> Head(marks').id, held |-> held]>> \o marks

(* The regions handed out since the mark are released, and it goes with    *)
(* those made after it.                                                    *)
Release ==
    \E i \in DOMAIN marks :
        /\ held' = marks[i].held
        /\ marks' = SubSeq(marks, i + 1, Len(marks))

ReleaseHead == held' = Of(held, "tail") /\ marks' = << >>
ReleaseTail ==
    /\ held' = Of(held, "head")
    /\ marks' = [i \in DOMAIN marks |-> [marks[i] EXCEPT !.held = Of(@, "head")]]
ReleaseAll == held' = {} /\ marks' = << >>

MarkSpec ==
    /\ MarkInit
    /\ [][Get \/ Resize \/ Mark \/ Release \/ ReleaseHead \/ ReleaseTail \/ ReleaseAll]_markVars
=============================================================================
