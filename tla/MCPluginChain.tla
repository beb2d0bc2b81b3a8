---------------------------- MODULE MCPluginChain ----------------------------
(* Chains of up to three Plugin tags over four libraries.                    *)
EXTENDS PluginChain

CONSTANTS rec, udp, dtmf, md5

Good(s) == [i \in DOMAIN s |-> [lib |-> s[i], path |-> TRUE]]

Bare(s, k) == [Good(s) EXCEPT ![k].path = FALSE]

(* Up to three tags, the same library twice among them; of four libraries, the
   checksum plugin only as the last.                                         *)
Md5Last == {s \in UNION {[1 .. n -> Libs] : n \in 0 .. 3} :
              \A i \in DOMAIN s : s[i] = md5 => i = Len(s)}

(* The configurations tried: those, and those with one tag without its path. *)
Configs == {Good(s) : s \in Md5Last}
           \cup UNION {{Bare(s, k) : k \in DOMAIN s} : s \in Md5Last}

(* The checksum plugin in front of the recorder.                             *)
Md5Amid == {Good(<<udp, md5, rec>>)}

Kinds == [l \in Libs |->
            IF l \in {rec, dtmf} THEN "keep" ELSE IF l = md5 THEN "self" ELSE "pass"]
=============================================================================
