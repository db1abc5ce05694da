---------------------------- MODULE MCBootLoader ----------------------------
EXTENDS BootLoader

(* Kernels of one or two segments, anywhere behind the header page.        *)
MCSegments ==
  { s \in [p_pa : 4 .. 12, p_offset : 4 .. 9, p_filesz : 0 .. 3, p_memsz : 0 .. 4] :
      s.p_filesz <= s.p_memsz /\ s.p_memsz > 0 }

MCImages ==
  { <<s>> : s \in { s \in MCSegments : Linked(<<s>>) } } \union
  { <<s, t>> : s \in { s \in MCSegments : s.p_filesz = s.p_memsz /\ s.p_pa < 9 },
               t \in { s \in MCSegments : Linked(<<s>>) } }

MCLinked == { ph0 \in MCImages : Linked(ph0) }
=============================================================================
