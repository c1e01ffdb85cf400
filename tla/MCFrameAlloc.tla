---------------------------- MODULE MCFrameAlloc ----------------------------
(* Frame 0 is the null frame.  The kernel's image is in frames 3 to 5, what  *)
(* kmalloc_early gave out in frame 6.  Pages of two: the stack of the middle *)
(* class grows over a second page.  Modules: none; one that splits a region; *)
(* two side by side, listed from the top.                                    *)
EXTENDS FrameAlloc, TLC

MCKernelPage == "low" :> 3 @@ "free" :> 4 @@ "high" :> 5

Map(modules) ==
    [usable |-> << <<0, 3>>, <<3, 12>>, <<12, 13>> >>,
     reserved |-> << <<0, 1>>, <<3, 6>>, <<6, 7>> >> \o modules]

MCBootMaps ==
    {Map(<<>>), Map(<< <<8, 9>> >>), Map(<< <<9, 10>>, <<7, 9>> >>)}
=============================================================================
