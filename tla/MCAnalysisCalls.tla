---------------------------- MODULE MCAnalysisCalls ----------------------------
(* Files on both sides of every tier bound, with cuts that cross, that fall    *)
(* past the end or on one instant, upright and turned, small and large.        *)
EXTENDS AnalysisCalls

MCPolicy ==
  [tierShort |-> 2, tierMedium |-> 3, tierLong |-> 4, tierMax |-> 5,
   boundShort |-> 2000, boundMedium |-> 4000, boundLong |-> 6000,
   maxFrames |-> 4, headTailTrimPct |-> 5]

Shape(width, height, rotation) == [width |-> width, height |-> height, rotation |-> rotation]

File(duration, shape, cuts) ==
  [duration |-> duration, width |-> shape.width, height |-> shape.height,
   rotation |-> shape.rotation, cuts |-> cuts]

MCVideos ==
  {File(40, Shape(6, 4, 0), {}),
   File(1200, Shape(20, 10, 90), {500}),
   File(3000, Shape(10, 21, 0), {2900}),
   File(5000, Shape(30, 20, 180), {650, 1500, 1887}),
   File(8000, Shape(11, 33, 270), {3000, 7900})}

MCPictures == {{}, {1}, {1, 2}}

MCCalls == 1 .. 2

=============================================================================
