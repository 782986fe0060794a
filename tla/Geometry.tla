------------------------------- MODULE Geometry --------------------------------
(***************************************************************************)
(* Position, Orientation and DirectionalPoint of the renderers.  Positions *)
(* are vectors of integers, orientations are multiples of 90 degrees, so   *)
(* that rotations are exact.  The azimuth of a position is represented by  *)
(* the position itself: azimuths are compared by products of vectors.      *)
(***************************************************************************)
EXTENDS Integers

Plus(p, q) == <<p[1] + q[1], p[2] + q[2]>>
Minus(p, q) == <<p[1] - q[1], p[2] - q[2]>>
Times(n, p) == <<n * p[1], n * p[2]>>
Dot(p, q) == p[1] * q[1] + p[2] * q[2]
Cross(p, q) == p[1] * q[2] - p[2] * q[1]

\* The vector of length 1 with this azimuth.
Unit(azimuth) ==
  CASE azimuth % 360 = 0 -> <<1, 0>>
    [] azimuth % 360 = 90 -> <<0, 1>>
    [] azimuth % 360 = 180 -> <<-1, 0>>
    [] azimuth % 360 = 270 -> <<0, -1>>

\* Position::rotate()
rotate(p, azimuth) == Plus(Times(p[1], Unit(azimuth)), Times(p[2], Unit(azimuth + 90)))

\* DirectionalPoint::transform(): from the coordinates of `t` to those it is in.
transform(point, t) ==
  [point EXCEPT !.position = Plus(rotate(@, t.orientation), t.position),
                !.orientation = @ + t.orientation]

\* Position::orientation(): the azimuth of the origin is 0.
orientation(p) == IF p = <<0, 0>> THEN <<1, 0>> ELSE p

\* Position::length() in samples; with the sign `behind`, it is added 0.5 and
\* cut off towards zero, as static_cast<int> does.
RootOf(n) == CHOOSE r \in 0 .. n : r * r <= n /\ (r + 1) * (r + 1) > n
Samples(p) == (RootOf(4 * Dot(p, p)) + 1) \div 2
SamplesBehind(p) == - (IF Dot(p, p) = 0 THEN 0 ELSE (RootOf(4 * Dot(p, p)) - 1) \div 2)

\* DirectionalPoint::plane_to_point_distance()
plane_to_point_distance(plane, p) == Dot(Minus(p, plane.position), Unit(plane.orientation))

\* Azimuths wrapped to 0 .. 360: the lower half of the plane comes last.
Lower(p) == p[2] < 0 \/ (p[2] = 0 /\ p[1] < 0)
AngleLess(p, q) ==
  \/ ~ Lower(p) /\ Lower(q)
  \/ Lower(p) = Lower(q) /\ Cross(p, q) > 0
==============================================================================
