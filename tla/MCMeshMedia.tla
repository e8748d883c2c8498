----------------------------- MODULE MCMeshMedia -----------------------------
\* Model-checking instance of MeshMedia.
EXTENDS MeshMedia

\* Interest changes with every frame, and the two speakers take turns.
MCRotation == [s \in Speakers |-> [f \in Frames |-> (f + 1) % 2]]

Game(scenario, filtered, pooled) ==
  [topology |-> "direct", scenario |-> scenario, talkers |-> 2, filtered |-> filtered,
   pooled |-> pooled, churn |-> "none", churner |-> Listener]

\* Two participants talk, one of them the listener.
Churn(profile, who) ==
  [Game("baseline", FALSE, FALSE) EXCEPT !.churn = profile, !.churner = who]

MCSettings ==
  {Game("rotating", filtered, pooled) : filtered, pooled \in BOOLEAN}
  \cup {Game("oscillation", FALSE, TRUE), Game("group-merge", TRUE, TRUE)}
  \cup {[Game(scenario, TRUE, TRUE) EXCEPT !.topology = "star"] :
          scenario \in {"baseline", "rotating"}}
  \cup {Churn(profile, who) :
          profile \in {"join", "leave", "reconnect", "replace"}, who \in {Listener, 1}}
=============================================================================
