----------------------------- MODULE MCController -----------------------------
(* Small instances of Controller for TLC: the clusters to start from. *)
EXTENDS Controller, TLC

CONSTANTS t1, t2, c1, c2, p1, p2, w1, w2

(* The keys of a template's data are all alike. *)
KeySymmetry == Permutations(DataKeys)

OneNamespace == [o \in Objects |-> "default"]

Tmpl(n, name, text) ==
  [uid |-> n, rv |-> n, configMapName |-> name, data |-> [d \in DataKeys |-> text]]

Nothing == [o \in Objects |-> Absent]

EmptyServer == {Nothing}

(* One template, whose ConfigMap does not exist yet. *)
OneTemplate == {[Nothing EXCEPT ![t1] = Tmpl(1, c1, text)] : text \in Texts}

(* The same, and one pod or two. *)
WithPod == {[s EXCEPT ![p1] = "a"] : s \in OneTemplate}
TwoPods == {[s EXCEPT ![p2] = "a"] : s \in WithPod}

(* Two templates that want the same ConfigMap. *)
TwoTemplates == {[Nothing EXCEPT ![t1] = Tmpl(1, c1, "plain"), ![t2] = Tmpl(2, c1, "plain")]}
===============================================================================
