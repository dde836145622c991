------------------------------ MODULE EventLoop ------------------------------
(***************************************************************************)
(* The class EventLoop (libsponge/util/eventloop.hh, eventloop.cc): a list *)
(* of rules, each a file descriptor, a direction and three functions of    *)
(* the loop's owner (callback, interest, cancel).  wait_next_event is      *)
(*                                                                         *)
(*   - one pass that cancels the rules whose descriptor is at its end and  *)
(*     asks the others whether they are interested,                        *)
(*   - poll(2), which looks at every descriptor once, and                  *)
(*   - a second pass that serves the rules one after the other by what     *)
(*     poll saw, which may be out of date by then.                         *)
(*                                                                         *)
(* A rule is a record [fd, direction]; the owner's state s holds whatever  *)
(* its functions read and write.  A loop is an instance of this module     *)
(* with the functions of its rules.                                        *)
(***************************************************************************)
EXTENDS Sequences, SequencesExt

CONSTANTS
    Eof(_, _), Closed(_, _),       \* of a descriptor, in the owner's state
    Interest(_, _), Cancel(_, _)   \* of a rule

\* The first pass, in the order of the list: the owner's state after the cancels,
\* the rules that are left, and those among them that are interested.
Prepared(rules, s) ==
    FoldLeft(LAMBDA pass, r :
        IF (r.direction = "In" /\ Eof(pass.s, r.fd)) \/ Closed(pass.s, r.fd)
        THEN [pass EXCEPT !.s = Cancel(@, r)]
        ELSE [pass EXCEPT !.rules = Append(@, r),
                          !.asked = @ \union {x \in {r} : Interest(pass.s, r)}],
        [s |-> s, rules |-> <<>>, asked |-> {}], rules)

\* What the second pass makes of one rule.  Errors and hangups are reported whether
\* or not they were asked for.
Verdict(r, asked, revents) ==
    CASE "Err" \in revents -> "error"
      [] r \in asked /\ r.direction \in revents -> "ready"
      [] r \in asked /\ r.direction \notin revents /\ "Hup" \in revents -> "defunct"
      [] OTHER -> "none"

\* The rules the second pass has something to do for, in the order of the list.
ToServe(rules, asked, revents) ==
    SelectSeq([i \in DOMAIN rules |->
                   [rule |-> rules[i], verdict |-> Verdict(rules[i], asked, revents[rules[i].fd])]],
              LAMBDA x : x.verdict # "none")

\* A callback that served nothing and is still interested would be called for ever.
BusyWait(served, interested) == ~served /\ interested
=============================================================================
