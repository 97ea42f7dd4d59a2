----------------------------- MODULE RuleTables -----------------------------
(***************************************************************************)
(* The generated tables of patterns.h that the scanner is compiled with.   *)
(*                                                                         *)
(* group_k_bytes is sorted in the code, so that it is here the set of its  *)
(* values.  A row of group_k_rules is <<original_id, len, highest entry of *)
(* byte_index>>: which bytes a pattern is made of is told apart by nothing *)
(* that is stated of the tables.  Groups count from 0, rows from 1.        *)
(***************************************************************************)
EXTENDS Integers, Sequences, FiniteSets

NUM_GROUPS == 22
MAX_PATTERNS_PER_GROUP == 128
MAX_PATTERN_LEN == 214
MAX_UNIQUE_BYTES == 187
MAX_HISTORY_BITS == 256
LONG_PATTERN_THRESHOLD == 64

\* Mutant: a scanner for four bytes a call, with the tables made for two.
DCAM_P_Four == 4

DCAM_P == 2

GroupId == 0 .. NUM_GROUPS - 1

\* A sequence as the array of the groups.
ByGroup(seq) == [g \in GroupId |-> seq[g + 1]]

\* num_patterns, max_len, num_unique_bytes, history_bits, is_long_group.
GroupInfoRows ==
  << <<39,214,92,256,TRUE>>, <<128,64,80,128,FALSE>>, <<128,56,51,64,FALSE>>,
     <<128,61,82,64,FALSE>>, <<128,45,103,64,FALSE>>, <<128,61,84,64,FALSE>>,
     <<128,47,39,64,FALSE>>, <<128,52,84,64,FALSE>>, <<128,24,63,32,FALSE>>,
     <<128,29,33,32,FALSE>>, <<128,30,86,32,FALSE>>, <<128,31,30,32,FALSE>>,
     <<128,24,61,32,FALSE>>, <<128,30,54,32,FALSE>>, <<128,32,77,64,FALSE>>,
     <<128,30,36,32,FALSE>>, <<128,38,187,64,FALSE>>, <<128,24,77,32,FALSE>>,
     <<128,16,51,32,FALSE>>, <<128,29,101,32,FALSE>>, <<128,31,144,32,FALSE>>,
     <<77,20,83,32,FALSE>> >>

group_info ==
  ByGroup([k \in 1 .. NUM_GROUPS |->
    [num_patterns |-> GroupInfoRows[k][1], max_len |-> GroupInfoRows[k][2],
     num_unique_bytes |-> GroupInfoRows[k][3],
     history_bits |-> GroupInfoRows[k][4], is_long_group |-> GroupInfoRows[k][5]]])

----------------------------------------------------------------------------
group_0_bytes ==
  (0 .. 6) \cup (10 .. 13) \cup (40 .. 62) \cup (65 .. 67) \cup
  (69 .. 73) \cup (75 .. 87) \cup (97 .. 123) \cup {16, 32, 34, 36, 89, 92,
  95, 125, 128, 136}
group_1_bytes ==
  (40 .. 42) \cup (45 .. 59) \cup (63 .. 73) \cup (77 .. 81) \cup
  (83 .. 88) \cup (97 .. 122) \cup {0, 6, 10, 11, 13, 32, 35, 36, 61, 75, 90,
  91, 93, 95}
group_2_bytes ==
  (45 .. 47) \cup (58 .. 63) \cup (97 .. 123) \cup {10, 13, 32, 34, 49, 52,
  54, 72, 75, 77, 78, 80, 82, 88, 95}
group_3_bytes ==
  (37 .. 42) \cup (44 .. 63) \cup (65 .. 87) \cup (97 .. 105) \cup
  (107 .. 122) \cup {10, 13, 32, 34, 89, 90, 92, 95}
group_4_bytes ==
  (0 .. 23) \cup (32 .. 35) \cup (45 .. 54) \cup (56 .. 59) \cup
  (63 .. 72) \cup (82 .. 85) \cup (97 .. 122) \cup {25, 38, 42, 43, 61, 74,
  75, 77, 78, 80, 87, 90, 92, 95, 124, 126, 128, 160, 164, 171, 205}
group_5_bytes ==
  (31 .. 37) \cup (43 .. 47) \cup (49 .. 52) \cup (58 .. 90) \cup
  (97 .. 112) \cup (114 .. 121) \cup {0, 10, 12, 13, 40, 41, 54, 56, 95, 123,
  124}
group_6_bytes ==
  (45 .. 47) \cup (95 .. 112) \cup (114 .. 122) \cup {32, 49, 50, 53, 58, 61,
  63, 82, 126}
group_7_bytes ==
  (0 .. 7) \cup (38 .. 42) \cup (45 .. 59) \cup (65 .. 73) \cup
  (76 .. 80) \cup (82 .. 85) \cup (97 .. 122) \cup {9, 10, 13, 14, 16, 18, 32,
  61, 63, 87, 88, 95}
group_8_bytes ==
  (45 .. 51) \cup (65 .. 73) \cup (75 .. 86) \cup (99 .. 105) \cup
  (108 .. 112) \cup (114 .. 116) \cup (118 .. 120) \cup {0, 10, 13, 32, 33,
  35, 37, 42, 54, 58, 61, 63, 89, 90, 92, 95, 97}
group_9_bytes ==
  (97 .. 101) \cup (103 .. 105) \cup (107 .. 122) \cup {34, 38, 40, 46, 47,
  61, 63, 71, 95}
group_10_bytes ==
  (2 .. 10) \cup (40 .. 42) \cup (44 .. 49) \cup (54 .. 56) \cup
  (58 .. 63) \cup (65 .. 73) \cup (75 .. 80) \cup (82 .. 88) \cup
  (97 .. 105) \cup (107 .. 121) \cup {0, 12, 13, 15, 16, 19, 32, 34, 36, 37,
  51, 95, 169}
group_11_bytes ==
  (45 .. 47) \cup (97 .. 106) \cup (108 .. 112) \cup (114 .. 117) \cup {32,
  50, 61, 63, 78, 83, 119, 120}
group_12_bytes ==
  (45 .. 58) \cup (65 .. 71) \cup (97 .. 122) \cup {32, 34, 37, 43, 61, 63,
  74, 77, 80, 83, 84, 86, 95, 124}
group_13_bytes ==
  (2 .. 10) \cup (45 .. 51) \cup (97 .. 112) \cup (114 .. 122) \cup {0, 13,
  14, 32, 38, 42, 43, 53, 55, 57, 58, 92, 95}
group_14_bytes ==
  (39 .. 41) \cup (43 .. 50) \cup (56 .. 61) \cup (65 .. 85) \cup
  (89 .. 91) \cup (97 .. 106) \cup (108 .. 122) \cup {10, 13, 32, 33, 35, 37,
  52, 87, 93, 95, 124}
group_15_bytes ==
  (45 .. 47) \cup (97 .. 105) \cup (107 .. 121) \cup {7, 36, 42, 51, 52, 58,
  61, 63, 82}
group_16_bytes ==
  (0 .. 14) \cup (22 .. 25) \cup (35 .. 38) \cup (46 .. 51) \cup
  (54 .. 56) \cup (63 .. 65) \cup (67 .. 72) \cup (75 .. 78) \cup
  (80 .. 83) \cup (85 .. 95) \cup (101 .. 105) \cup (108 .. 120) \cup
  (124 .. 126) \cup (128 .. 131) \cup (133 .. 139) \cup (143 .. 145) \cup
  (147 .. 154) \cup (160 .. 162) \cup (164 .. 166) \cup (169 .. 171) \cup
  (184 .. 188) \cup (194 .. 202) \cup (204 .. 213) \cup (215 .. 220) \cup
  (222 .. 225) \cup (243 .. 245) \cup (249 .. 255) \cup {16, 18, 20, 30, 32,
  33, 40, 42, 43, 59, 60, 98, 99, 122, 141, 156, 157, 176, 177, 179, 180, 190,
  192, 227, 228, 230, 232, 233, 235, 238, 247}
group_17_bytes ==
  (32 .. 34) \cup (36 .. 41) \cup (45 .. 53) \cup (55 .. 66) \cup
  (95 .. 112) \cup (114 .. 116) \cup (118 .. 122) \cup {0, 10, 13, 19, 43, 68,
  70, 71, 73, 74, 76, 77, 80, 83, 84, 87, 88, 91, 93, 124, 126}
group_18_bytes ==
  (45 .. 48) \cup (82 .. 84) \cup (97 .. 120) \cup (122 .. 124) \cup {32, 33,
  38, 42, 52, 53, 58, 61, 63, 65, 66, 70, 78, 79, 92, 126, 144}
group_19_bytes ==
  (0 .. 3) \cup (45 .. 56) \cup (58 .. 69) \cup (71 .. 80) \cup
  (82 .. 84) \cup (87 .. 89) \cup (97 .. 102) \cup (104 .. 106) \cup
  (108 .. 121) \cup (160 .. 162) \cup {5, 10, 13, 19, 26, 32, 34, 35, 37, 39,
  43, 91, 92, 94, 95, 123, 124, 137, 211, 218, 231, 233, 235, 242, 244, 245,
  247, 250, 251, 254, 255}
group_20_bytes ==
  (0 .. 5) \cup (14 .. 33) \cup (35 .. 41) \cup (47 .. 52) \cup
  (64 .. 87) \cup (115 .. 118) \cup (126 .. 128) \cup (136 .. 138) \cup
  (185 .. 187) \cup (208 .. 210) \cup (234 .. 236) \cup (241 .. 243) \cup
  (247 .. 249) \cup (253 .. 255) \cup {7, 8, 10, 11, 45, 57, 58, 60, 61, 89,
  90, 93, 95, 98, 100, 103, 107, 108, 113, 121, 123, 133, 142, 144, 146, 148,
  150, 152, 154, 155, 158, 162, 165, 166, 170, 172, 176, 177, 180, 181, 191,
  192, 194, 199, 200, 204, 205, 212, 213, 223, 224, 226, 239}
group_21_bytes ==
  (0 .. 11) \cup (22 .. 24) \cup (46 .. 49) \cup (53 .. 56) \cup
  (61 .. 65) \cup (99 .. 101) \cup (114 .. 116) \cup (122 .. 124) \cup
  (126 .. 131) \cup {19, 27, 32, 34, 37, 40, 42, 44, 51, 59, 69, 76, 79, 96,
  97, 105, 106, 109, 111, 112, 120, 133, 141, 144, 148, 155, 170, 171, 173,
  205, 208, 217, 219, 220, 233, 244, 246, 251, 253, 255}

group_bytes ==
  ByGroup(<<group_0_bytes, group_1_bytes, group_2_bytes, group_3_bytes,
    group_4_bytes, group_5_bytes, group_6_bytes, group_7_bytes, group_8_bytes,
    group_9_bytes, group_10_bytes, group_11_bytes, group_12_bytes,
    group_13_bytes, group_14_bytes, group_15_bytes, group_16_bytes,
    group_17_bytes, group_18_bytes, group_19_bytes, group_20_bytes,
    group_21_bytes>>)

----------------------------------------------------------------------------
group_0_rules ==
  << <<63,107,87>>, <<1779,105,85>>, <<2060,96,84>>, <<2016,67,86>>,
     <<1930,69,86>>, <<2006,74,89>>, <<2462,141,87>>, <<2169,163,87>>,
     <<2066,146,87>>, <<2067,139,87>>, <<2393,136,87>>, <<2392,149,87>>,
     <<2397,214,87>>, <<2274,131,87>>, <<2187,106,87>>, <<2063,84,87>>,
     <<2444,69,87>>, <<2451,81,87>>, <<2416,151,87>>, <<2081,115,87>>,
     <<2082,118,87>>, <<2225,77,87>>, <<2186,118,87>>, <<2027,90,85>>,
     <<1826,71,87>>, <<2117,74,87>>, <<2174,69,87>>, <<1935,69,87>>,
     <<1799,69,87>>, <<1891,70,86>>, <<2244,80,87>>, <<2255,76,87>>,
     <<2036,68,84>>, <<2183,69,86>>, <<2065,79,86>>, <<2241,71,86>>,
     <<1864,100,85>>, <<464,65,84>>, <<955,122,91>> >>
group_1_rules ==
  << <<1,16,75>>, <<2422,36,75>>, <<1012,14,75>>, <<1386,20,78>>,
     <<1385,25,78>>, <<1488,36,78>>, <<1622,45,78>>, <<1625,44,78>>,
     <<1564,43,78>>, <<1612,43,78>>, <<1614,42,78>>, <<1641,44,78>>,
     <<1644,43,78>>, <<1404,42,75>>, <<1445,50,78>>, <<1571,49,78>>,
     <<1572,47,78>>, <<1413,40,78>>, <<1539,37,75>>, <<1540,35,75>>,
     <<1566,50,78>>, <<1568,53,78>>, <<1589,50,78>>, <<1593,49,78>>,
     <<1594,50,78>>, <<1596,52,78>>, <<346,48,77>>, <<348,47,77>>,
     <<521,26,75>>, <<1469,38,75>>, <<1476,34,78>>, <<1491,35,78>>,
     <<1496,35,75>>, <<1509,31,74>>, <<1510,33,78>>, <<1513,41,75>>,
     <<1524,35,78>>, <<1562,43,78>>, <<1567,45,78>>, <<1569,48,78>>,
     <<1570,50,78>>, <<1574,46,78>>, <<1590,48,78>>, <<1591,46,78>>,
     <<1607,42,78>>, <<1617,42,78>>, <<1618,40,78>>, <<1620,41,78>>,
     <<1621,42,78>>, <<1629,49,78>>, <<1630,46,78>>, <<1633,49,78>>,
     <<1634,42,78>>, <<1636,43,78>>, <<1648,43,78>>, <<1649,37,78>>,
     <<1651,46,78>>, <<1659,45,78>>, <<1661,46,78>>, <<1665,48,78>>,
     <<1667,45,78>>, <<1668,52,78>>, <<506,44,78>>, <<461,35,76>>,
     <<1357,59,76>>, <<1358,39,76>>, <<1402,39,78>>, <<1543,34,76>>,
     <<1586,46,78>>, <<1666,46,78>>, <<452,36,78>>, <<2123,32,76>>,
     <<1359,34,77>>, <<1419,37,76>>, <<1444,50,78>>, <<1595,43,78>>,
     <<1616,42,78>>, <<1632,49,78>>, <<1647,43,78>>, <<437,41,77>>,
     <<1399,44,78>>, <<1447,42,78>>, <<1448,41,78>>, <<1449,48,78>>,
     <<1483,35,76>>, <<1549,38,76>>, <<1558,37,76>>, <<1583,48,78>>,
     <<1592,47,78>>, <<1601,34,76>>, <<1623,39,78>>, <<2461,43,76>>,
     <<2122,32,75>>, <<132,26,69>>, <<2609,64,76>>, <<2676,43,78>>,
     <<2322,27,73>>, <<574,31,77>>, <<2576,44,78>>, <<2246,49,78>>,
     <<2299,50,77>>, <<2500,64,79>>, <<2331,62,79>>, <<2130,49,79>>,
     <<2468,46,79>>, <<2480,47,79>>, <<2410,39,79>>, <<1894,44,77>>,
     <<1933,42,76>>, <<2095,38,79>>, <<1743,38,79>>, <<2074,40,79>>,
     <<2254,35,79>>, <<1679,62,78>>, <<2054,35,79>>, <<2403,34,79>>,
     <<1872,35,79>>, <<524,41,79>>, <<1977,25,79>>, <<2285,39,73>>,
     <<463,57,76>>, <<462,49,76>>, <<2641,50,75>>, <<2540,39,74>>,
     <<1263,53,78>>, <<1836,41,76>>, <<1996,33,73>>, <<2190,49,78>> >>
group_2_rules ==
  << <<2,10,49>>, <<491,7,47>>, <<944,11,47>>, <<945,12,47>>, <<829,11,47>>,
     <<1312,16,48>>, <<582,23,48>>, <<500,35,47>>, <<503,28,48>>,
     <<1450,29,48>>, <<1200,27,43>>, <<1484,31,48>>, <<1489,30,48>>,
     <<1439,29,48>>, <<1480,33,44>>, <<1486,32,48>>, <<1487,33,48>>,
     <<1504,40,44>>, <<1532,34,44>>, <<1664,42,48>>, <<160,31,48>>,
     <<1429,33,44>>, <<1434,31,48>>, <<1474,30,48>>, <<1475,31,48>>,
     <<1481,33,44>>, <<1498,40,44>>, <<1505,40,44>>, <<1516,34,44>>,
     <<1522,31,48>>, <<1523,32,48>>, <<1533,34,44>>, <<1606,34,46>>,
     <<1381,40,44>>, <<1401,43,48>>, <<1494,38,43>>, <<1500,37,48>>,
     <<1546,38,44>>, <<1559,40,44>>, <<1652,44,48>>, <<1655,42,48>>,
     <<1658,45,48>>, <<2605,25,48>>, <<1392,30,44>>, <<1405,42,44>>,
     <<1408,40,44>>, <<1431,34,43>>, <<1482,36,43>>, <<1497,35,44>>,
     <<1508,36,44>>, <<1514,29,44>>, <<1517,31,44>>, <<1530,34,44>>,
     <<1577,39,48>>, <<1584,36,48>>, <<1602,40,43>>, <<1603,37,44>>,
     <<1394,33,46>>, <<1411,31,46>>, <<1545,35,46>>, <<1406,27,45>>,
     <<1441,33,48>>, <<1442,46,48>>, <<1443,47,48>>, <<1499,37,46>>,
     <<1553,39,45>>, <<1557,35,48>>, <<1588,43,48>>, <<73,26,46>>,
     <<1993,28,48>>, <<507,25,47>>, <<1813,25,46>>, <<1890,26,46>>,
     <<2108,33,45>>, <<2020,28,48>>, <<1397,33,48>>, <<1430,35,43>>,
     <<1458,35,45>>, <<1460,33,45>>, <<1468,35,45>>, <<1470,33,45>>,
     <<1495,40,45>>, <<1515,36,45>>, <<1535,40,43>>, <<1537,29,44>>,
     <<1538,38,45>>, <<1544,37,44>>, <<1560,38,45>>, <<1563,40,48>>,
     <<1565,43,48>>, <<1575,45,48>>, <<1597,42,48>>, <<1598,34,48>>,
     <<1608,38,48>>, <<1610,39,48>>, <<1611,40,48>>, <<1613,37,48>>,
     <<1619,40,48>>, <<1624,35,48>>, <<1626,45,48>>, <<1627,40,48>>,
     <<1628,38,48>>, <<1637,39,48>>, <<1639,40,48>>, <<1640,41,48>>,
     <<1642,38,48>>, <<1650,40,48>>, <<1662,39,48>>, <<1663,36,48>>,
     <<1811,43,47>>, <<2022,26,48>>, <<2024,28,47>>, <<2107,32,45>>,
     <<2178,28,48>>, <<677,32,48>>, <<599,31,48>>, <<2167,33,46>>,
     <<2264,31,47>>, <<1832,56,47>>, <<1797,37,45>>, <<2539,28,48>>,
     <<2026,50,50>>, <<1840,31,49>>, <<1820,30,49>>, <<2351,24,48>>,
     <<2355,30,48>>, <<1843,28,48>>, <<2352,32,49>> >>
group_3_rules ==
  << <<3,8,75>>, <<1694,9,75>>, <<2656,15,75>>, <<371,17,75>>, <<351,31,79>>,
     <<345,40,79>>, <<366,33,79>>, <<353,33,79>>, <<375,35,75>>,
     <<372,27,80>>, <<363,37,80>>, <<355,37,79>>, <<1158,33,75>>,
     <<1377,22,79>>, <<356,29,77>>, <<427,29,76>>, <<387,26,79>>,
     <<393,26,77>>, <<1415,43,75>>, <<1511,32,80>>, <<1561,37,77>>,
     <<1573,36,80>>, <<1581,44,80>>, <<1609,38,80>>, <<1615,43,80>>,
     <<1631,45,80>>, <<1635,41,80>>, <<1638,39,80>>, <<1643,34,80>>,
     <<1645,44,80>>, <<1646,39,80>>, <<1660,46,80>>, <<1478,33,80>>,
     <<1527,34,80>>, <<1199,17,76>>, <<1395,30,77>>, <<1407,31,75>>,
     <<1465,30,75>>, <<1472,29,80>>, <<1485,31,80>>, <<1490,26,80>>,
     <<1492,36,80>>, <<1493,31,80>>, <<1503,36,80>>, <<1512,36,75>>,
     <<1520,30,80>>, <<1536,42,75>>, <<1550,34,80>>, <<1554,23,76>>,
     <<1555,28,77>>, <<1585,38,80>>, <<1587,42,80>>, <<1654,45,80>>,
     <<1657,43,80>>, <<933,39,76>>, <<1446,37,80>>, <<1463,40,76>>,
     <<1464,32,75>>, <<1551,30,79>>, <<2002,23,79>>, <<347,36,79>>,
     <<376,37,80>>, <<388,27,77>>, <<418,29,76>>, <<468,26,75>>,
     <<1501,31,76>>, <<1541,28,76>>, <<1552,39,75>>, <<1579,42,80>>,
     <<1582,40,80>>, <<977,36,78>>, <<978,37,78>>, <<466,44,78>>,
     <<465,42,78>>, <<1556,31,80>>, <<782,34,79>>, <<1269,24,80>>,
     <<417,20,79>>, <<438,37,78>>, <<1139,31,75>>, <<1254,23,78>>,
     <<1295,21,78>>, <<1302,19,78>>, <<1477,28,80>>, <<1525,29,80>>,
     <<1605,31,78>>, <<1822,31,81>>, <<2112,27,81>>, <<1821,28,81>>,
     <<2517,33,80>>, <<2615,25,75>>, <<2236,26,81>>, <<1736,35,76>>,
     <<2618,26,75>>, <<2498,25,81>>, <<2386,25,81>>, <<1738,24,78>>,
     <<2175,32,78>>, <<2587,25,75>>, <<2249,26,76>>, <<2014,34,80>>,
     <<2070,45,76>>, <<2463,32,75>>, <<1121,37,80>>, <<1833,32,80>>,
     <<2248,33,77>>, <<2354,29,80>>, <<2408,26,75>>, <<2648,27,78>>,
     <<2332,37,76>>, <<1975,49,74>>, <<139,32,52>>, <<626,24,74>>,
     <<2321,24,75>>, <<2402,23,75>>, <<2661,40,75>>, <<2243,35,80>>,
     <<1083,38,80>>, <<508,39,77>>, <<2460,32,75>>, <<1867,24,75>>,
     <<2263,27,70>>, <<2629,23,79>>, <<2199,25,76>>, <<2475,61,75>>,
     <<2304,49,80>>, <<1731,23,75>>, <<515,26,76>> >>
group_4_rules ==
  << <<4,6,60>>, <<1673,6,60>>, <<1067,3,50>>, <<166,2,2>>, <<1697,2,2>>,
     <<1016,7,2>>, <<1420,3,2>>, <<2599,3,2>>, <<2624,12,2>>, <<1723,4,20>>,
     <<2625,12,5>>, <<2574,4,16>>, <<85,23,102>>, <<94,13,98>>, <<130,16,16>>,
     <<126,15,15>>, <<125,16,23>>, <<2377,18,93>>, <<2369,20,93>>,
     <<2371,18,92>>, <<703,40,99>>, <<704,16,100>>, <<1854,24,95>>,
     <<2154,18,92>>, <<2234,31,92>>, <<1781,27,90>>, <<1782,27,92>>,
     <<2286,28,90>>, <<2632,26,92>>, <<1881,24,95>>, <<1883,21,90>>,
     <<2084,22,91>>, <<2136,19,89>>, <<2152,19,90>>, <<1988,30,94>>,
     <<1990,30,94>>, <<1987,26,94>>, <<2134,25,94>>, <<2144,26,94>>,
     <<1086,30,91>>, <<1084,45,94>>, <<2216,25,91>>, <<1871,30,95>>,
     <<1734,25,94>>, <<2164,22,95>>, <<1085,38,90>>, <<2146,24,94>>,
     <<2235,22,95>>, <<2353,31,94>>, <<1842,28,89>>, <<1849,24,94>>,
     <<2570,28,96>>, <<2509,25,93>>, <<1844,32,92>>, <<1789,25,89>>,
     <<523,23,91>>, <<1804,26,92>>, <<2627,24,94>>, <<2161,20,93>>,
     <<2252,23,89>>, <<2336,21,89>>, <<1066,31,94>>, <<1230,26,92>>,
     <<990,31,94>>, <<1122,24,89>>, <<2128,28,89>>, <<2675,31,90>>,
     <<2227,32,95>>, <<526,24,92>>, <<987,32,93>>, <<1932,23,92>>,
     <<1991,24,93>>, <<2414,19,95>>, <<2568,34,89>>, <<980,35,93>>,
     <<152,24,95>>, <<2093,23,92>>, <<2423,26,89>>, <<2662,33,89>>,
     <<2663,40,89>>, <<2363,26,95>>, <<2630,25,89>>, <<2078,21,89>>,
     <<2113,28,89>>, <<2644,31,88>>, <<2665,38,89>>, <<594,26,93>>,
     <<1951,24,90>>, <<553,23,84>>, <<1471,32,91>>, <<1518,32,92>>,
     <<1519,35,91>>, <<1599,34,92>>, <<1653,45,94>>, <<1656,43,94>>,
     <<2023,25,93>>, <<1011,27,97>>, <<2133,23,94>>, <<2138,25,95>>,
     <<2405,30,89>>, <<2166,28,95>>, <<2092,31,91>>, <<137,16,85>>,
     <<1018,36,89>>, <<1142,23,95>>, <<1162,25,89>>, <<1194,23,93>>,
     <<1238,20,90>>, <<1239,22,90>>, <<1531,35,89>>, <<1576,42,94>>,
     <<1578,40,94>>, <<1600,37,89>>, <<1703,24,93>>, <<1732,21,89>>,
     <<1794,22,90>>, <<1808,18,93>>, <<1815,22,93>>, <<1941,20,88>>,
     <<2013,20,93>>, <<2021,22,93>>, <<2062,18,94>>, <<2077,21,94>>,
     <<2104,20,89>>, <<2253,27,96>>, <<2313,19,90>>, <<2315,22,91>>,
     <<2333,23,93>> >>
group_5_rules ==
  << <<5,8,53>>, <<675,4,50>>, <<122,4,50>>, <<999,12,51>>, <<788,8,51>>,
     <<368,26,57>>, <<361,27,57>>, <<358,29,57>>, <<357,20,57>>,
     <<364,20,57>>, <<367,20,57>>, <<350,26,57>>, <<370,20,57>>,
     <<365,17,57>>, <<360,26,57>>, <<362,17,57>>, <<1750,20,49>>,
     <<1756,14,49>>, <<1751,25,80>>, <<1757,19,54>>, <<1747,17,51>>,
     <<1768,14,51>>, <<1773,12,51>>, <<1764,13,51>>, <<161,21,55>>,
     <<182,16,51>>, <<1718,13,57>>, <<183,11,51>>, <<158,13,50>>,
     <<886,14,57>>, <<1748,13,50>>, <<1753,11,52>>, <<1769,13,52>>,
     <<2334,13,50>>, <<1225,10,49>>, <<1226,10,49>>, <<1228,10,48>>,
     <<1676,11,56>>, <<2370,19,56>>, <<2378,22,56>>, <<2198,30,52>>,
     <<2305,10,54>>, <<627,18,50>>, <<2367,22,56>>, <<1355,13,51>>,
     <<1356,11,51>>, <<1866,20,76>>, <<2399,20,76>>, <<2455,19,76>>,
     <<1973,17,76>>, <<2529,20,76>>, <<1232,23,76>>, <<1961,16,76>>,
     <<2583,23,78>>, <<230,25,83>>, <<727,36,77>>, <<2420,21,78>>,
     <<231,21,76>>, <<441,28,78>>, <<1783,18,76>>, <<1824,25,77>>,
     <<2099,50,83>>, <<1683,32,78>>, <<676,18,76>>, <<649,23,80>>,
     <<570,23,76>>, <<2418,27,76>>, <<709,21,77>>, <<856,28,80>>,
     <<2486,27,78>>, <<1965,24,81>>, <<2674,21,81>>, <<887,29,78>>,
     <<1219,21,81>>, <<1315,19,81>>, <<1741,25,81>>, <<1861,24,76>>,
     <<2385,40,77>>, <<2407,21,76>>, <<2427,27,78>>, <<2466,20,81>>,
     <<2490,21,81>>, <<2535,24,81>>, <<2566,20,81>>, <<2611,18,81>>,
     <<2387,38,82>>, <<2295,19,82>>, <<2525,19,79>>, <<1308,21,81>>,
     <<1787,26,78>>, <<2050,25,77>>, <<2076,19,80>>, <<2511,22,76>>,
     <<2055,61,76>>, <<147,19,79>>, <<260,20,79>>, <<349,30,80>>,
     <<352,28,80>>, <<381,20,78>>, <<385,21,80>>, <<391,29,80>>,
     <<396,27,80>>, <<420,26,81>>, <<428,34,76>>, <<439,17,76>>,
     <<445,26,80>>, <<454,25,80>>, <<720,21,77>>, <<746,20,80>>,
     <<805,29,80>>, <<812,19,80>>, <<834,16,74>>, <<943,19,80>>,
     <<968,18,75>>, <<974,22,76>>, <<1019,15,80>>, <<1081,24,76>>,
     <<1132,19,81>>, <<1145,20,75>>, <<1175,19,81>>, <<1218,19,76>>,
     <<1247,17,77>>, <<1252,25,76>>, <<1272,25,80>>, <<1393,32,77>>,
     <<1396,32,76>>, <<1398,29,76>>, <<1403,34,76>> >>
group_6_rules ==
  << <<6,7,31>>, <<2603,6,31>>, <<1124,21,31>>, <<380,20,31>>, <<480,18,31>>,
     <<619,20,31>>, <<664,16,30>>, <<1242,18,31>>, <<1250,19,31>>,
     <<1246,18,30>>, <<1253,20,31>>, <<1220,18,30>>, <<1681,16,28>>,
     <<778,29,31>>, <<1292,18,28>>, <<1459,35,31>>, <<1461,33,31>>,
     <<1418,26,30>>, <<1462,24,30>>, <<1412,47,31>>, <<1502,31,31>>,
     <<1548,30,31>>, <<432,26,31>>, <<580,25,30>>, <<1153,27,31>>,
     <<1547,31,31>>, <<1473,29,36>>, <<1479,34,36>>, <<1521,30,36>>,
     <<1526,25,36>>, <<1528,35,36>>, <<1529,30,36>>, <<1275,26,36>>,
     <<1440,35,36>>, <<2180,21,36>>, <<311,21,36>>, <<310,19,36>>,
     <<1506,34,32>>, <<1542,28,32>>, <<2000,18,36>>, <<2039,19,32>>,
     <<471,20,32>>, <<694,21,32>>, <<2434,20,32>>, <<1438,27,36>>,
     <<1534,23,35>>, <<813,18,35>>, <<1118,14,35>>, <<1156,15,35>>,
     <<2181,22,35>>, <<1580,43,36>>, <<1410,33,31>>, <<1507,35,31>>,
     <<2106,19,30>>, <<1934,17,31>>, <<2324,21,31>>, <<228,18,38>>,
     <<333,13,30>>, <<419,28,31>>, <<469,23,31>>, <<525,23,36>>,
     <<532,19,32>>, <<542,17,35>>, <<559,18,35>>, <<660,20,35>>,
     <<719,18,29>>, <<757,25,31>>, <<772,16,36>>, <<779,23,31>>,
     <<787,18,29>>, <<833,18,35>>, <<911,18,29>>, <<915,14,32>>,
     <<923,15,31>>, <<934,14,31>>, <<982,14,29>>, <<1024,16,32>>,
     <<1096,16,32>>, <<1114,16,32>>, <<1140,18,31>>, <<1141,23,31>>,
     <<1288,19,32>>, <<1289,17,31>>, <<1409,31,36>>, <<1421,16,31>>,
     <<1432,20,35>>, <<1466,31,31>>, <<1467,27,36>>, <<1780,17,32>>,
     <<2158,16,35>>, <<320,17,35>>, <<424,19,34>>, <<962,17,34>>,
     <<1248,19,34>>, <<1255,18,34>>, <<392,19,34>>, <<513,14,34>>,
     <<688,24,36>>, <<721,22,34>>, <<794,20,35>>, <<1005,14,36>>,
     <<2551,20,37>>, <<386,20,35>>, <<401,19,35>>, <<404,21,34>>,
     <<407,22,33>>, <<545,20,33>>, <<1043,15,37>>, <<1249,18,34>>,
     <<1604,35,33>>, <<592,18,37>>, <<2240,17,30>>, <<1436,23,36>>,
     <<1862,23,30>>, <<1273,16,34>>, <<839,19,35>>, <<1825,20,36>>,
     <<2008,16,37>>, <<2037,18,30>>, <<2247,17,34>>, <<2413,18,35>>,
     <<2433,21,32>>, <<2435,19,32>>, <<2439,24,34>>, <<2483,18,32>>,
     <<786,19,29>>, <<2406,18,31>>, <<2442,18,31>> >>
group_7_rules ==
  << <<7,9,83>>, <<1261,7,78>>, <<818,10,78>>, <<819,12,77>>, <<826,16,78>>,
     <<1143,13,77>>, <<501,21,77>>, <<502,19,77>>, <<695,16,77>>,
     <<576,14,78>>, <<1267,15,78>>, <<728,12,78>>, <<374,17,78>>,
     <<317,13,83>>, <<613,14,76>>, <<832,15,75>>, <<831,16,75>>,
     <<785,17,77>>, <<815,13,78>>, <<373,16,77>>, <<729,12,78>>,
     <<875,13,76>>, <<922,18,78>>, <<1125,17,78>>, <<1189,14,77>>,
     <<1192,17,77>>, <<244,26,78>>, <<1716,52,78>>, <<2621,27,83>>,
     <<1208,17,81>>, <<2404,13,81>>, <<880,18,81>>, <<2446,19,81>>,
     <<988,30,81>>, <<1042,14,77>>, <<1204,19,77>>, <<2646,15,81>>,
     <<949,17,75>>, <<1798,18,78>>, <<2091,13,79>>, <<749,20,80>>,
     <<268,15,80>>, <<520,13,80>>, <<2580,17,79>>, <<1372,14,80>>,
     <<1796,17,77>>, <<1865,19,78>>, <<1879,17,76>>, <<2028,13,77>>,
     <<2271,14,80>>, <<2412,17,81>>, <<2542,15,77>>, <<2573,15,75>>,
     <<533,31,81>>, <<1231,27,78>>, <<145,16,80>>, <<716,17,77>>,
     <<1058,16,82>>, <<203,19,82>>, <<458,20,82>>, <<585,15,82>>,
     <<872,15,82>>, <<2259,15,82>>, <<1853,19,77>>, <<1391,20,83>>,
     <<1744,24,77>>, <<2011,22,83>>, <<2389,19,78>>, <<154,23,75>>,
     <<881,18,79>>, <<1739,24,79>>, <<1947,17,77>>, <<1948,17,77>>,
     <<2508,16,77>>, <<2531,21,81>>, <<2079,21,83>>, <<1151,17,77>>,
     <<1901,22,79>>, <<1956,21,77>>, <<2284,21,77>>, <<2620,16,78>>,
     <<2032,21,81>>, <<2189,20,77>>, <<1705,42,76>>, <<1354,36,42>>,
     <<170,33,80>>, <<2109,19,81>>, <<2188,19,77>>, <<2516,24,63>>,
     <<1827,28,69>>, <<2075,20,81>>, <<2182,23,77>>, <<2215,25,82>>,
     <<528,28,79>>, <<2510,18,72>>, <<544,15,78>>, <<2589,19,82>>,
     <<198,28,76>>, <<2349,22,77>>, <<2450,22,77>>, <<416,18,80>>,
     <<1870,19,75>>, <<2488,23,81>>, <<2489,20,81>>, <<20,22,82>>,
     <<2010,18,77>>, <<932,19,80>>, <<2546,21,77>>, <<2339,23,81>>,
     <<1942,22,83>>, <<2207,22,80>>, <<2143,22,81>>, <<2145,18,82>>,
     <<2132,19,78>>, <<2135,17,78>>, <<2250,17,76>>, <<2137,18,82>>,
     <<2179,19,78>>, <<1968,19,77>>, <<2151,20,83>>, <<2088,19,78>>,
     <<2089,19,78>>, <<2110,19,83>>, <<2139,20,82>>, <<2141,16,81>>,
     <<2465,19,83>>, <<2165,21,82>>, <<2197,21,82>> >>
group_8_rules ==
  << <<8,2,24>>, <<683,24,21>>, <<1686,5,37>>, <<1098,5,37>>, <<1126,6,37>>,
     <<497,6,36>>, <<1691,7,36>>, <<1041,8,36>>, <<2664,9,37>>,
     <<2303,13,36>>, <<679,8,40>>, <<963,8,38>>, <<1689,11,38>>,
     <<1688,9,38>>, <<1763,10,38>>, <<1754,10,37>>, <<1752,9,36>>,
     <<479,13,37>>, <<512,9,38>>, <<1762,10,38>>, <<1319,8,36>>, <<64,8,36>>,
     <<1755,14,37>>, <<706,8,38>>, <<1766,8,38>>, <<1227,10,36>>,
     <<1229,8,37>>, <<2604,8,41>>, <<1400,9,43>>, <<1414,7,43>>,
     <<1453,7,43>>, <<2534,9,41>>, <<2457,11,43>>, <<138,8,36>>,
     <<1963,16,37>>, <<88,14,37>>, <<672,14,62>>, <<658,23,35>>,
     <<1026,18,37>>, <<1803,15,59>>, <<2581,14,59>>, <<1742,11,59>>,
     <<2459,12,62>>, <<174,14,59>>, <<1845,15,59>>, <<2173,18,59>>,
     <<2176,19,59>>, <<2307,18,59>>, <<2441,18,59>>, <<2415,12,59>>,
     <<2025,15,57>>, <<1379,16,62>>, <<2610,22,59>>, <<2288,13,58>>,
     <<2287,13,58>>, <<395,22,62>>, <<2042,16,60>>, <<394,20,60>>,
     <<397,21,60>>, <<400,22,60>>, <<481,19,59>>, <<603,14,58>>,
     <<975,20,59>>, <<1077,16,59>>, <<1841,21,60>>, <<1957,13,59>>,
     <<2524,16,59>>, <<2590,17,59>>, <<264,15,61>>, <<1390,18,61>>,
     <<265,14,61>>, <<1052,21,62>>, <<1309,14,61>>, <<1338,13,61>>,
     <<2071,15,61>>, <<2345,16,61>>, <<2437,18,61>>, <<2479,14,61>>,
     <<2519,15,61>>, <<402,20,60>>, <<656,17,58>>, <<2591,20,59>>,
     <<129,16,57>>, <<253,16,60>>, <<290,13,58>>, <<587,15,60>>,
     <<714,16,59>>, <<733,13,61>>, <<752,16,59>>, <<845,17,59>>,
     <<1095,13,61>>, <<1166,13,59>>, <<1283,17,59>>, <<1347,23,60>>,
     <<1806,16,62>>, <<2597,16,59>>, <<431,15,58>>, <<443,15,62>>,
     <<447,15,54>>, <<631,15,60>>, <<1898,15,60>>, <<2438,18,61>>,
     <<2541,21,61>>, <<2642,15,59>>, <<632,15,60>>, <<153,17,59>>,
     <<294,13,54>>, <<354,19,62>>, <<359,16,62>>, <<369,19,62>>,
     <<382,13,62>>, <<384,21,59>>, <<473,13,61>>, <<546,20,59>>,
     <<561,18,62>>, <<598,13,61>>, <<755,13,58>>, <<961,15,61>>,
     <<1075,15,59>>, <<1174,16,59>>, <<1191,14,61>>, <<1203,18,59>>,
     <<1235,18,59>>, <<1243,15,59>>, <<1245,15,56>>, <<1251,16,59>>,
     <<2157,17,62>>, <<2168,16,61>> >>
group_9_rules ==
  << <<9,4,26>>, <<111,7,26>>, <<421,4,26>>, <<451,4,26>>, <<707,9,31>>,
     <<708,14,31>>, <<1073,14,31>>, <<2314,15,26>>, <<976,14,31>>,
     <<730,17,31>>, <<738,14,25>>, <<731,12,25>>, <<740,14,29>>,
     <<342,13,29>>, <<467,13,29>>, <<575,12,29>>, <<262,20,30>>,
     <<390,12,29>>, <<568,18,30>>, <<836,14,27>>, <<555,13,27>>,
     <<251,15,31>>, <<287,13,30>>, <<741,11,27>>, <<743,16,27>>,
     <<814,13,22>>, <<900,15,27>>, <<1064,15,31>>, <<1423,13,26>>,
     <<1830,18,27>>, <<1999,15,27>>, <<2496,15,31>>, <<267,14,29>>,
     <<2347,16,24>>, <<286,15,30>>, <<1097,14,27>>, <<1136,14,24>>,
     <<1146,15,29>>, <<1835,20,29>>, <<2156,14,30>>, <<2432,15,26>>,
     <<2473,15,27>>, <<1899,14,26>>, <<2009,16,31>>, <<2196,16,30>>,
     <<2481,16,27>>, <<2342,13,26>>, <<517,12,25>>, <<519,13,30>>,
     <<684,14,26>>, <<735,13,29>>, <<1074,13,24>>, <<1172,13,29>>,
     <<1173,13,29>>, <<1211,13,30>>, <<1240,15,26>>, <<1378,11,30>>,
     <<1896,12,26>>, <<1955,12,29>>, <<2004,15,30>>, <<2012,13,26>>,
     <<2053,12,30>>, <<2425,14,26>>, <<589,12,31>>, <<646,13,31>>,
     <<748,19,27>>, <<991,13,27>>, <<1144,14,24>>, <<1244,16,22>>,
     <<1270,13,31>>, <<1433,22,31>>, <<1880,17,22>>, <<2001,18,27>>,
     <<2277,16,31>>, <<2429,14,24>>, <<379,19,28>>, <<2211,20,31>>,
     <<2445,16,30>>, <<1157,16,32>>, <<1435,29,32>>, <<1177,12,32>>,
     <<1873,16,26>>, <<655,24,29>>, <<888,13,26>>, <<995,16,27>>,
     <<269,12,29>>, <<314,13,30>>, <<318,11,31>>, <<398,12,29>>,
     <<399,21,28>>, <<425,26,26>>, <<429,15,29>>, <<488,17,30>>,
     <<571,13,30>>, <<691,17,26>>, <<742,12,29>>, <<763,13,31>>,
     <<780,17,25>>, <<801,15,29>>, <<808,11,26>>, <<849,16,28>>,
     <<896,15,27>>, <<940,16,27>>, <<958,15,25>>, <<1006,11,28>>,
     <<1070,12,29>>, <<1072,14,28>>, <<1076,12,25>>, <<1176,12,32>>,
     <<1183,16,28>>, <<1186,13,29>>, <<1188,13,24>>, <<1193,12,29>>,
     <<1196,12,27>>, <<1201,14,29>>, <<1207,13,27>>, <<1217,13,29>>,
     <<1281,14,24>>, <<1310,13,29>>, <<1341,15,26>>, <<1371,12,27>>,
     <<1735,13,27>>, <<1937,13,31>>, <<2048,14,27>>, <<2237,20,26>>,
     <<2265,13,26>>, <<2329,16,31>>, <<2391,15,26>> >>
group_10_rules ==
  << <<10,4,56>>, <<2306,4,56>>, <<1069,3,56>>, <<1060,4,55>>, <<1129,4,55>>,
     <<117,4,55>>, <<176,4,55>>, <<1304,4,56>>, <<378,4,55>>, <<1772,8,55>>,
     <<1760,6,55>>, <<1761,5,55>>, <<1417,5,56>>, <<799,4,55>>, <<1303,4,55>>,
     <<201,8,57>>, <<678,7,57>>, <<726,7,57>>, <<1727,6,57>>, <<36,4,52>>,
     <<1368,4,57>>, <<477,8,57>>, <<2242,6,55>>, <<997,5,51>>, <<946,7,55>>,
     <<1036,6,53>>, <<633,6,57>>, <<973,7,54>>, <<2335,6,54>>, <<971,8,51>>,
     <<1685,7,59>>, <<1771,9,59>>, <<43,7,51>>, <<1770,6,55>>, <<2268,6,51>>,
     <<1839,6,55>>, <<848,11,59>>, <<577,10,59>>, <<984,8,58>>, <<1945,9,55>>,
     <<2302,11,55>>, <<2005,9,55>>, <<2520,11,75>>, <<1205,10,71>>,
     <<1293,18,79>>, <<15,13,79>>, <<1161,20,79>>, <<635,14,81>>,
     <<869,11,81>>, <<1983,23,81>>, <<2469,16,79>>, <<1134,17,82>>,
     <<591,12,82>>, <<2673,12,82>>, <<297,12,82>>, <<597,14,82>>,
     <<1291,14,80>>, <<2538,13,80>>, <<937,13,80>>, <<1241,12,78>>,
     <<1259,14,78>>, <<1767,14,80>>, <<1949,14,82>>, <<607,11,81>>,
     <<629,12,81>>, <<926,12,74>>, <<2571,14,79>>, <<1785,17,81>>,
     <<155,16,78>>, <<2667,17,82>>, <<1816,15,79>>, <<2598,16,80>>,
     <<2601,13,75>>, <<657,20,80>>, <<820,13,82>>, <<131,16,85>>,
     <<2350,15,80>>, <<1876,19,83>>, <<2454,17,83>>, <<2592,14,80>>,
     <<2226,30,74>>, <<615,12,82>>, <<725,13,78>>, <<1022,16,80>>,
     <<1800,16,81>>, <<1360,17,83>>, <<1994,15,79>>, <<2291,16,80>>,
     <<2148,23,81>>, <<2149,17,81>>, <<2171,18,82>>, <<2142,20,80>>,
     <<2147,15,83>>, <<1969,14,82>>, <<2090,13,80>>, <<2150,12,82>>,
     <<2290,16,79>>, <<960,19,82>>, <<1792,18,82>>, <<2131,15,80>>,
     <<2328,19,83>>, <<1943,22,80>>, <<232,24,79>>, <<939,15,80>>,
     <<1215,16,83>>, <<1980,15,74>>, <<1974,15,80>>, <<2390,15,77>>,
     <<536,13,80>>, <<1812,21,82>>, <<2046,18,82>>, <<2051,18,83>>,
     <<2125,16,79>>, <<1897,16,75>>, <<2111,17,77>>, <<2325,16,84>>,
     <<873,14,84>>, <<1698,19,84>>, <<2126,16,84>>, <<2153,16,84>>,
     <<2064,19,84>>, <<2447,17,84>>, <<2208,22,84>>, <<2388,17,84>>,
     <<123,22,80>>, <<134,16,79>>, <<151,12,74>>, <<241,22,83>> >>
group_11_rules ==
  << <<11,9,26>>, <<612,7,26>>, <<1237,10,27>>, <<671,8,27>>, <<2419,12,26>>,
     <<2612,10,26>>, <<1895,13,26>>, <<2261,9,26>>, <<2518,14,28>>,
     <<2105,12,26>>, <<1152,17,27>>, <<1790,11,26>>, <<1149,13,29>>,
     <<2279,12,29>>, <<283,11,29>>, <<300,11,29>>, <<1099,12,29>>,
     <<2343,11,28>>, <<2660,24,27>>, <<284,13,28>>, <<810,10,25>>,
     <<913,10,26>>, <<1113,11,25>>, <<1427,12,29>>, <<1726,12,28>>,
     <<584,12,28>>, <<2346,13,29>>, <<403,10,28>>, <<624,11,27>>,
     <<804,18,29>>, <<1115,11,27>>, <<904,10,26>>, <<909,14,26>>,
     <<49,11,27>>, <<936,13,26>>, <<1311,14,28>>, <<1848,14,25>>,
     <<601,13,27>>, <<602,12,27>>, <<753,31,29>>, <<797,13,25>>,
     <<194,15,26>>, <<270,12,24>>, <<332,12,29>>, <<504,12,29>>,
     <<663,10,26>>, <<732,11,26>>, <<751,13,26>>, <<837,11,25>>,
     <<874,12,23>>, <<907,14,27>>, <<916,12,27>>, <<935,11,22>>,
     <<952,11,25>>, <<1167,10,26>>, <<1202,13,26>>, <<1260,12,29>>,
     <<1268,15,25>>, <<1279,15,26>>, <<1313,11,26>>, <<1317,10,25>>,
     <<1353,11,27>>, <<1715,13,26>>, <<1809,16,26>>, <<1858,13,25>>,
     <<1887,17,27>>, <<1928,11,24>>, <<1992,15,25>>, <<2018,11,29>>,
     <<2102,12,28>>, <<2192,11,25>>, <<2193,11,23>>, <<2409,13,29>>,
     <<2530,10,29>>, <<2658,11,28>>, <<281,13,26>>, <<661,15,29>>,
     <<722,14,26>>, <<1003,14,28>>, <<838,12,26>>, <<1045,12,24>>,
     <<302,16,25>>, <<444,12,29>>, <<563,12,26>>, <<929,13,25>>,
     <<2085,12,23>>, <<2398,12,26>>, <<938,12,27>>, <<1004,12,29>>,
     <<1266,11,29>>, <<1282,12,25>>, <<1348,12,26>>, <<271,12,27>>,
     <<295,12,24>>, <<609,13,29>>, <<1171,14,27>>, <<1374,13,27>>,
     <<2448,17,29>>, <<861,13,28>>, <<662,13,29>>, <<948,15,27>>,
     <<44,14,26>>, <<272,12,26>>, <<274,14,29>>, <<278,11,26>>, <<331,12,28>>,
     <<341,12,26>>, <<383,13,29>>, <<448,15,29>>, <<564,11,25>>,
     <<565,11,25>>, <<611,13,24>>, <<769,11,27>>, <<802,13,21>>,
     <<809,10,26>>, <<835,12,29>>, <<918,12,27>>, <<927,12,27>>,
     <<1046,11,25>>, <<1053,20,21>>, <<1155,13,27>>, <<1185,13,20>>,
     <<1212,11,29>>, <<1958,10,26>>, <<2185,14,26>>, <<2289,16,26>>,
     <<2293,12,26>>, <<2477,11,26>> >>
group_12_rules ==
  << <<12,11,53>>, <<840,9,53>>, <<986,7,52>>, <<608,11,55>>, <<460,13,55>>,
     <<1278,11,52>>, <<2617,14,55>>, <<322,11,56>>, <<344,12,49>>,
     <<540,11,56>>, <<573,12,56>>, <<586,10,51>>, <<2487,16,53>>,
     <<470,8,52>>, <<498,9,56>>, <<1380,11,51>>, <<604,10,49>>,
     <<2056,23,51>>, <<2585,18,60>>, <<696,12,52>>, <<817,11,55>>,
     <<1280,12,53>>, <<551,11,49>>, <<1001,14,56>>, <<996,13,55>>,
     <<659,10,49>>, <<2654,13,55>>, <<2569,16,60>>, <<2200,10,60>>,
     <<2294,11,58>>, <<1110,12,60>>, <<871,11,57>>, <<1111,11,57>>,
     <<1437,23,59>>, <<578,11,56>>, <<2214,16,57>>, <<423,14,55>>,
     <<616,12,52>>, <<489,11,57>>, <<892,15,53>>, <<989,12,55>>,
     <<1051,16,57>>, <<1960,10,55>>, <<229,13,60>>, <<255,21,58>>,
     <<509,20,57>>, <<1206,13,57>>, <<518,16,42>>, <<2659,11,56>>,
     <<303,12,55>>, <<389,11,59>>, <<539,12,58>>, <<1116,12,55>>,
     <<1169,13,56>>, <<1178,10,59>>, <<1801,11,57>>, <<2593,13,51>>,
     <<640,12,51>>, <<992,19,52>>, <<641,12,51>>, <<823,13,53>>,
     <<824,12,56>>, <<2515,24,39>>, <<756,12,52>>, <<1860,16,52>>,
     <<2029,13,58>>, <<2395,16,57>>, <<2184,23,36>>, <<1724,16,53>>,
     <<204,13,58>>, <<275,11,56>>, <<723,14,55>>, <<774,12,55>>,
     <<784,14,55>>, <<897,13,55>>, <<898,14,53>>, <<956,22,55>>,
     <<1276,16,58>>, <<527,15,55>>, <<593,12,56>>, <<595,13,56>>,
     <<596,12,56>>, <<541,13,55>>, <<702,20,53>>, <<768,12,60>>,
     <<770,12,60>>, <<50,11,55>>, <<304,10,58>>, <<316,11,55>>, <<535,15,54>>,
     <<766,11,60>>, <<771,11,55>>, <<2031,14,57>>, <<2578,12,58>>,
     <<313,11,58>>, <<2671,11,58>>, <<800,12,53>>, <<825,13,52>>,
     <<1953,18,48>>, <<1884,14,53>>, <<2431,12,55>>, <<226,12,53>>,
     <<307,10,53>>, <<736,12,49>>, <<744,11,57>>, <<806,13,52>>,
     <<879,11,57>>, <<924,13,53>>, <<1179,13,52>>, <<1287,13,52>>,
     <<1332,11,54>>, <<1369,12,54>>, <<2034,10,52>>, <<2043,11,56>>,
     <<2172,16,57>>, <<2602,12,54>>, <<830,12,56>>, <<625,11,56>>,
     <<860,14,52>>, <<1187,14,52>>, <<1013,14,59>>, <<21,17,59>>,
     <<2443,11,53>>, <<1184,15,48>>, <<472,12,53>>, <<144,16,58>>,
     <<710,13,58>>, <<1758,13,58>> >>
group_13_rules ==
  << <<13,3,31>>, <<964,1,26>>, <<1693,8,48>>, <<894,10,48>>, <<901,13,52>>,
     <<903,10,48>>, <<905,12,47>>, <<908,15,47>>, <<899,10,47>>,
     <<434,10,45>>, <<876,10,51>>, <<1007,11,51>>, <<440,14,46>>,
     <<2129,10,48>>, <<912,9,47>>, <<98,10,47>>, <<941,10,51>>, <<453,11,46>>,
     <<650,11,45>>, <<1147,8,47>>, <<692,15,46>>, <<928,12,47>>,
     <<1017,9,52>>, <<2177,12,47>>, <<2430,14,48>>, <<242,30,47>>,
     <<239,26,47>>, <<240,20,48>>, <<237,24,47>>, <<2140,12,48>>,
     <<2267,12,48>>, <<1855,16,46>>, <<2044,19,51>>, <<1939,14,53>>,
     <<2083,22,47>>, <<2101,14,53>>, <<2087,13,53>>, <<1791,17,50>>,
     <<1970,14,52>>, <<1981,13,47>>, <<2262,15,47>>, <<1989,15,53>>,
     <<2047,16,50>>, <<2273,16,52>>, <<247,20,51>>, <<1931,14,52>>,
     <<1997,12,50>>, <<2316,15,49>>, <<2038,14,51>>, <<2100,16,51>>,
     <<2260,12,48>>, <<2588,13,50>>, <<2619,11,50>>, <<2338,12,49>>,
     <<2045,17,50>>, <<1863,11,53>>, <<2258,12,46>>, <<118,12,48>>,
     <<238,22,50>>, <<257,11,47>>, <<280,12,47>>, <<291,9,46>>, <<305,12,44>>,
     <<323,9,44>>, <<338,10,52>>, <<339,9,46>>, <<340,13,45>>, <<422,14,51>>,
     <<455,13,47>>, <<476,15,47>>, <<486,10,51>>, <<487,11,51>>, <<514,9,46>>,
     <<538,11,47>>, <<562,10,48>>, <<581,12,43>>, <<614,10,46>>,
     <<622,11,43>>, <<623,10,45>>, <<690,10,51>>, <<715,9,46>>, <<724,10,46>>,
     <<754,14,51>>, <<767,10,48>>, <<775,14,49>>, <<789,11,46>>, <<827,9,51>>,
     <<828,12,51>>, <<910,13,51>>, <<917,11,47>>, <<920,13,47>>,
     <<1002,11,53>>, <<1021,12,46>>, <<1063,11,51>>, <<1137,10,50>>,
     <<1138,13,46>>, <<1148,11,50>>, <<1150,12,44>>, <<1170,11,49>>,
     <<1181,11,47>>, <<1182,11,43>>, <<1190,12,49>>, <<1197,11,53>>,
     <<1210,13,51>>, <<1214,10,51>>, <<1257,13,46>>, <<1370,16,46>>,
     <<1455,10,51>>, <<1729,10,47>>, <<1818,9,47>>, <<1856,10,51>>,
     <<1857,10,51>>, <<1859,16,53>>, <<1877,11,50>>, <<1940,10,53>>,
     <<1959,10,47>>, <<1976,13,48>>, <<2052,12,53>>, <<2210,11,51>>,
     <<2323,9,51>>, <<2356,12,45>>, <<2440,10,48>>, <<2470,10,48>>,
     <<2484,10,50>>, <<2586,12,46>>, <<2655,11,46>>, <<2666,15,47>>,
     <<2670,13,50>> >>
group_14_rules ==
  << <<14,5,43>>, <<1128,3,43>>, <<2499,7,43>>, <<1706,7,43>>, <<2375,32,57>>,
     <<2374,16,57>>, <<1684,6,39>>, <<2072,7,76>>, <<1749,9,43>>,
     <<2677,11,61>>, <<2330,8,70>>, <<2549,12,27>>, <<2550,6,27>>,
     <<2155,6,70>>, <<1336,7,70>>, <<1345,7,64>>, <<1907,10,76>>,
     <<1264,8,70>>, <<1784,11,70>>, <<2482,10,69>>, <<1819,11,69>>,
     <<2545,11,69>>, <<711,13,74>>, <<1456,12,74>>, <<156,11,70>>,
     <<947,11,70>>, <<47,11,70>>, <<1234,15,69>>, <<1384,14,69>>,
     <<256,15,69>>, <<2292,16,69>>, <<17,9,64>>, <<1707,12,74>>,
     <<1810,9,73>>, <<1829,9,67>>, <<277,8,68>>, <<285,9,69>>, <<883,9,68>>,
     <<1233,9,68>>, <<2160,10,69>>, <<335,9,74>>, <<292,8,67>>, <<579,10,74>>,
     <<208,12,70>>, <<2124,8,69>>, <<1209,13,68>>, <<449,14,69>>,
     <<645,15,67>>, <<1788,16,69>>, <<2647,10,68>>, <<2097,15,75>>,
     <<2098,14,68>>, <<2394,11,74>>, <<162,13,71>>, <<2127,10,71>>,
     <<234,11,64>>, <<2553,10,74>>, <<954,10,73>>, <<2209,13,68>>,
     <<781,18,74>>, <<1236,10,69>>, <<1878,9,67>>, <<1028,10,73>>,
     <<235,13,69>>, <<1320,17,68>>, <<1814,10,72>>, <<1195,11,72>>,
     <<1216,12,73>>, <<2672,9,72>>, <<1889,11,63>>, <<1795,17,74>>,
     <<1008,14,68>>, <<821,12,71>>, <<822,12,74>>, <<2582,12,74>>,
     <<953,10,69>>, <<1389,13,71>>, <<1759,12,74>>, <<116,10,72>>,
     <<119,11,69>>, <<233,12,69>>, <<258,8,73>>, <<263,10,72>>, <<273,10,73>>,
     <<288,8,72>>, <<293,9,69>>, <<298,8,72>>, <<299,9,68>>, <<326,9,67>>,
     <<327,9,73>>, <<334,10,70>>, <<336,11,69>>, <<343,12,69>>, <<377,9,71>>,
     <<406,11,72>>, <<433,9,69>>, <<446,11,68>>, <<482,8,68>>, <<496,10,73>>,
     <<510,15,71>>, <<522,9,74>>, <<543,9,72>>, <<556,8,67>>, <<566,8,68>>,
     <<567,10,68>>, <<583,11,63>>, <<600,9,72>>, <<610,8,73>>, <<621,9,70>>,
     <<630,8,69>>, <<687,8,75>>, <<693,12,68>>, <<737,10,69>>, <<761,12,76>>,
     <<764,10,76>>, <<790,10,70>>, <<793,8,72>>, <<811,9,68>>, <<816,8,68>>,
     <<846,9,67>>, <<859,9,68>>, <<865,9,69>>, <<884,9,69>>, <<893,9,72>>,
     <<1009,11,69>>, <<1015,9,69>>, <<1025,9,71>>, <<1047,9,69>> >>
group_15_rules ==
  << <<16,8,32>>, <<700,7,32>>, <<1452,6,30>>, <<2118,7,30>>, <<325,7,28>>,
     <<1284,11,30>>, <<2276,8,26>>, <<276,8,26>>, <<1318,9,26>>,
     <<1057,9,30>>, <<459,9,30>>, <<547,9,30>>, <<864,8,30>>, <<1154,9,30>>,
     <<1314,12,30>>, <<1375,10,30>>, <<1131,12,26>>, <<983,7,20>>,
     <<1168,10,35>>, <<1071,9,35>>, <<1112,9,35>>, <<985,9,32>>,
     <<1422,9,29>>, <<289,7,28>>, <<409,8,30>>, <<618,10,30>>, <<777,7,29>>,
     <<1109,9,26>>, <<1695,9,30>>, <<2257,8,30>>, <<776,8,29>>,
     <<1950,11,19>>, <<2162,10,32>>, <<2526,11,26>>, <<2281,11,30>>,
     <<1828,13,26>>, <<1425,11,26>>, <<1846,9,26>>, <<1962,9,24>>,
     <<2577,8,29>>, <<2428,11,21>>, <<2543,11,30>>, <<2544,10,26>>,
     <<1180,8,25>>, <<1285,10,25>>, <<1294,12,25>>, <<2003,9,28>>,
     <<2120,9,32>>, <<2474,10,28>>, <<2512,16,26>>, <<2521,10,30>>,
     <<2537,9,26>>, <<950,10,28>>, <<2485,10,31>>, <<1373,9,31>>,
     <<863,13,30>>, <<590,11,33>>, <<605,12,33>>, <<1286,9,33>>,
     <<1296,14,33>>, <<1335,8,33>>, <<1725,11,33>>, <<783,12,30>>,
     <<734,9,25>>, <<921,10,25>>, <<1130,9,31>>, <<1198,11,26>>,
     <<2613,16,24>>, <<1700,11,33>>, <<2396,30,31>>, <<23,8,28>>,
     <<39,10,33>>, <<53,7,30>>, <<110,8,33>>, <<207,8,35>>, <<306,7,29>>,
     <<337,9,30>>, <<426,9,29>>, <<505,8,28>>, <<617,7,31>>, <<620,9,23>>,
     <<718,8,28>>, <<745,9,30>>, <<750,8,33>>, <<762,11,26>>, <<765,9,30>>,
     <<791,7,32>>, <<792,8,23>>, <<803,7,29>>, <<847,8,30>>, <<882,9,24>>,
     <<891,8,29>>, <<914,7,20>>, <<919,8,33>>, <<925,8,35>>, <<951,8,28>>,
     <<1104,10,28>>, <<1160,9,31>>, <<1256,10,30>>, <<1271,8,29>>,
     <<1316,8,31>>, <<1331,10,31>>, <<1337,8,30>>, <<1424,11,26>>,
     <<1775,8,24>>, <<1837,7,35>>, <<1886,7,30>>, <<1944,8,29>>,
     <<1986,8,26>>, <<1995,7,31>>, <<2019,9,29>>, <<2327,7,31>>,
     <<2464,9,26>>, <<2628,9,33>>, <<2657,9,30>>, <<2668,11,31>>, <<60,8,31>>,
     <<61,8,32>>, <<308,9,33>>, <<1929,9,29>>, <<1454,9,31>>, <<450,11,30>>,
     <<87,8,33>>, <<866,10,34>>, <<1213,11,34>>, <<1265,11,34>>,
     <<1892,9,34>>, <<1984,8,34>> >>
group_16_rules ==
  << <<18,2,132>>, <<1672,8,168>>, <<172,7,67>>, <<171,7,67>>, <<62,9,33>>,
     <<405,5,33>>, <<411,5,67>>, <<557,5,33>>, <<606,3,33>>, <<842,7,33>>,
     <<168,3,33>>, <<59,7,1>>, <<654,2,1>>, <<1730,7,1>>, <<2504,5,1>>,
     <<2596,3,1>>, <<165,7,3>>, <<1325,3,3>>, <<2623,12,3>>, <<93,12,172>>,
     <<2205,8,44>>, <<2206,5,44>>, <<2472,6,57>>, <<2201,3,20>>,
     <<2202,3,20>>, <<2203,3,20>>, <<2217,3,18>>, <<2219,3,18>>,
     <<2221,3,18>>, <<670,7,62>>, <<697,7,97>>, <<701,4,97>>, <<1031,3,4>>,
     <<1135,12,29>>, <<2319,8,100>>, <<2115,7,120>>, <<189,4,120>>,
     <<1123,5,120>>, <<942,12,101>>, <<164,8,154>>, <<187,4,116>>,
     <<188,4,124>>, <<1163,5,124>>, <<199,4,122>>, <<1030,4,133>>,
     <<1039,4,170>>, <<1040,4,102>>, <<1055,4,128>>, <<1056,4,176>>,
     <<1038,4,176>>, <<1080,4,101>>, <<1087,4,126>>, <<1088,4,123>>,
     <<1120,4,137>>, <<705,5,70>>, <<1029,10,48>>, <<712,11,167>>,
     <<1710,8,149>>, <<2558,12,179>>, <<2561,28,186>>, <<2559,28,186>>,
     <<2560,28,186>>, <<218,8,153>>, <<1728,20,186>>, <<127,16,11>>,
     <<95,14,185>>, <<97,14,174>>, <<550,16,186>>, <<69,14,174>>,
     <<83,34,186>>, <<78,16,186>>, <<65,14,186>>, <<80,12,186>>,
     <<222,15,186>>, <<92,14,183>>, <<67,14,174>>, <<2555,12,186>>,
     <<90,16,173>>, <<75,17,181>>, <<969,16,168>>, <<89,15,174>>,
     <<82,13,181>>, <<66,14,186>>, <<634,10,186>>, <<2364,16,185>>,
     <<76,13,181>>, <<79,13,180>>, <<77,14,186>>, <<246,28,139>>,
     <<2424,16,178>>, <<2383,38,182>>, <<2368,18,156>>, <<2376,18,158>>,
     <<96,14,174>>, <<2298,8,164>>, <<667,7,85>>, <<2212,6,90>>,
     <<2563,8,186>>, <<84,16,87>>, <<2245,7,77>>, <<2491,32,169>>,
     <<2513,17,92>>, <<643,15,186>>, <<1033,14,186>>, <<588,10,90>>,
     <<653,10,88>>, <<1793,9,89>>, <<959,14,99>>, <<1719,15,86>>,
     <<279,9,89>>, <<647,9,90>>, <<1010,10,90>>, <<1919,8,92>>, <<967,8,89>>,
     <<1946,8,88>>, <<1670,9,82>>, <<1925,9,92>>, <<243,12,90>>, <<282,9,90>>,
     <<698,7,87>>, <<2594,8,88>>, <<1900,11,84>>, <<2170,10,91>>,
     <<2280,9,90>>, <<2341,11,88>>, <<652,10,80>>, <<1906,7,92>>,
     <<2256,8,86>> >>
group_17_rules ==
  << <<19,6,73>>, <<2533,5,66>>, <<844,5,69>>, <<296,7,68>>, <<870,9,68>>,
     <<1699,12,69>>, <<2195,6,69>>, <<259,6,68>>, <<2493,8,69>>, <<673,6,68>>,
     <<1979,8,66>>, <<2645,7,66>>, <<2492,8,70>>, <<651,7,68>>, <<680,8,64>>,
     <<1306,8,64>>, <<1776,7,64>>, <<2421,6,69>>, <<1838,12,72>>,
     <<1850,8,72>>, <<1100,12,72>>, <<1416,12,69>>, <<1920,9,75>>,
     <<1908,9,75>>, <<37,6,68>>, <<435,7,72>>, <<1023,7,68>>, <<1914,8,75>>,
     <<1915,8,75>>, <<1916,8,75>>, <<2121,9,69>>, <<2229,8,72>>,
     <<2231,9,72>>, <<2232,8,72>>, <<492,8,72>>, <<29,6,69>>, <<1746,9,73>>,
     <<1921,6,75>>, <<681,18,68>>, <<682,8,69>>, <<1382,9,69>>, <<685,12,63>>,
     <<1344,7,69>>, <<223,8,69>>, <<120,11,69>>, <<1387,10,72>>,
     <<2614,9,71>>, <<2017,15,71>>, <<52,9,71>>, <<1059,6,66>>, <<115,13,68>>,
     <<324,7,69>>, <<181,8,69>>, <<666,7,68>>, <<1923,9,75>>, <<2080,9,74>>,
     <<41,6,65>>, <<493,10,72>>, <<549,8,71>>, <<867,6,67>>, <<994,9,64>>,
     <<1696,6,69>>, <<1888,7,74>>, <<149,10,69>>, <<895,10,69>>,
     <<906,11,69>>, <<1954,9,72>>, <<868,8,69>>, <<2272,7,68>>, <<99,11,56>>,
     <<1924,9,75>>, <<2213,9,72>>, <<2337,8,72>>, <<31,6,73>>, <<38,6,64>>,
     <<193,7,69>>, <<485,7,72>>, <<495,8,72>>, <<529,7,69>>, <<1103,6,67>>,
     <<1342,7,62>>, <<2230,8,72>>, <<2233,8,72>>, <<747,8,76>>, <<1882,7,67>>,
     <<2567,7,73>>, <<2643,10,68>>, <<2426,7,70>>, <<114,10,54>>,
     <<2584,11,75>>, <<877,9,72>>, <<2308,11,66>>, <<412,11,68>>,
     <<537,7,68>>, <<2096,7,69>>, <<248,7,69>>, <<1101,8,55>>, <<2497,17,73>>,
     <<484,8,68>>, <<1893,13,55>>, <<1740,7,42>>, <<2357,12,66>>,
     <<2467,9,75>>, <<2228,16,69>>, <<2565,11,69>>, <<2057,12,69>>,
     <<981,9,68>>, <<143,8,31>>, <<2278,8,69>>, <<2401,8,66>>, <<2073,10,65>>,
     <<2631,10,65>>, <<2007,7,43>>, <<2300,13,35>>, <<2373,24,59>>,
     <<192,12,65>>, <<196,10,65>>, <<2400,14,73>>, <<100,6,68>>, <<186,9,23>>,
     <<436,6,63>>, <<534,12,69>>, <<885,9,71>>, <<957,8,72>>, <<1262,6,72>>,
     <<1290,10,66>>, <<1680,12,44>>, <<1777,7,59>> >>
group_18_rules ==
  << <<22,6,44>>, <<108,1,7>>, <<1065,2,7>>, <<26,6,44>>, <<474,4,44>>,
     <<1998,5,41>>, <<1952,7,42>>, <<1258,10,42>>, <<1343,7,41>>,
     <<2159,5,41>>, <<319,5,41>>, <<309,4,40>>, <<739,4,44>>, <<1105,5,40>>,
     <<548,7,44>>, <<1926,8,48>>, <<1903,5,48>>, <<1911,8,48>>, <<2579,8,37>>,
     <<1020,5,40>>, <<2572,6,42>>, <<328,5,40>>, <<699,6,42>>, <<717,8,44>>,
     <<1034,8,40>>, <<1913,5,48>>, <<2194,5,41>>, <<410,6,30>>, <<1834,7,37>>,
     <<2312,8,40>>, <<889,6,41>>, <<972,5,42>>, <<1334,6,40>>, <<1905,6,48>>,
     <<2449,6,40>>, <<2283,6,40>>, <<2495,5,41>>, <<1802,8,37>>,
     <<2528,7,37>>, <<413,5,41>>, <<637,5,30>>, <<1938,8,34>>, <<1388,11,42>>,
     <<1985,7,41>>, <<2030,7,45>>, <<490,6,45>>, <<494,7,45>>, <<2068,5,45>>,
     <<2049,7,30>>, <<499,5,40>>, <<1108,7,40>>, <<1966,5,27>>, <<2476,5,44>>,
     <<249,8,45>>, <<159,4,41>>, <<227,4,45>>, <<329,4,37>>, <<414,4,35>>,
     <<430,5,40>>, <<636,4,30>>, <<807,5,36>>, <<850,4,40>>, <<1027,4,42>>,
     <<1339,4,34>>, <<1340,4,44>>, <<1701,4,25>>, <<1902,5,48>>,
     <<1904,4,48>>, <<1910,4,48>>, <<1912,5,48>>, <<1917,4,48>>,
     <<1918,5,48>>, <<1922,4,48>>, <<1927,5,48>>, <<1967,5,37>>,
     <<1972,4,40>>, <<2041,4,42>>, <<2086,8,45>>, <<2436,5,44>>,
     <<2471,4,36>>, <<2522,4,35>>, <<2532,5,41>>, <<30,5,45>>, <<301,5,44>>,
     <<1451,5,41>>, <<91,16,50>>, <<254,10,42>>, <<2478,6,43>>, <<51,5,43>>,
     <<1333,5,43>>, <<45,6,43>>, <<902,5,41>>, <<2119,8,37>>, <<2523,7,47>>,
     <<25,4,44>>, <<54,4,37>>, <<55,4,37>>, <<315,4,40>>, <<642,7,43>>,
     <<890,5,44>>, <<1327,4,39>>, <<1807,4,30>>, <<2320,5,19>>, <<27,6,45>>,
     <<46,6,34>>, <<321,5,40>>, <<1805,6,40>>, <<2458,6,39>>, <<33,4,44>>,
     <<312,4,40>>, <<32,6,41>>, <<40,6,46>>, <<665,4,46>>, <<1711,4,46>>,
     <<2059,4,46>>, <<48,7,40>>, <<184,5,18>>, <<1119,5,39>>, <<2637,4,39>>,
     <<205,6,35>>, <<530,9,40>>, <<2058,5,37>>, <<483,4,40>>, <<2033,4,37>>,
     <<558,6,49>>, <<878,5,49>>, <<638,5,38>>, <<330,8,44>> >>
group_19_rules ==
  << <<24,4,76>>, <<101,4,76>>, <<195,10,76>>, <<197,6,76>>, <<1082,5,74>>,
     <<1328,3,76>>, <<1682,8,71>>, <<457,3,72>>, <<1106,3,72>>, <<1329,3,74>>,
     <<456,4,72>>, <<1102,5,75>>, <<1093,5,76>>, <<2015,5,76>>, <<1078,4,72>>,
     <<2514,4,66>>, <<2103,6,80>>, <<1107,4,80>>, <<1089,4,72>>,
     <<758,29,90>>, <<2340,7,78>>, <<1352,4,6>>, <<639,4,73>>, <<2035,7,77>>,
     <<2061,3,68>>, <<1117,4,96>>, <<1330,7,81>>, <<1745,3,81>>, <<191,8,70>>,
     <<236,4,81>>, <<1909,4,83>>, <<1713,5,76>>, <<1737,7,81>>, <<931,9,76>>,
     <<2040,7,78>>, <<2595,6,82>>, <<266,8,51>>, <<2382,6,51>>, <<1869,6,68>>,
     <<966,5,51>>, <<1376,5,51>>, <<1885,6,76>>, <<2417,5,75>>, <<2163,6,48>>,
     <<1428,8,84>>, <<759,5,49>>, <<554,7,40>>, <<2269,6,49>>, <<2270,6,54>>,
     <<1014,15,76>>, <<2548,8,51>>, <<2456,9,89>>, <<135,16,76>>,
     <<1362,4,40>>, <<28,6,65>>, <<1674,6,52>>, <<1765,8,52>>, <<2094,7,47>>,
     <<1704,15,100>>, <<179,5,45>>, <<74,8,46>>, <<175,4,46>>, <<853,4,47>>,
     <<930,4,47>>, <<1050,5,49>>, <<1367,4,54>>, <<1671,4,51>>,
     <<1717,5,100>>, <<478,5,53>>, <<1221,7,53>>, <<1048,4,53>>,
     <<1223,4,53>>, <<1277,4,53>>, <<1297,4,53>>, <<773,5,45>>, <<970,11,53>>,
     <<1366,5,47>>, <<225,4,48>>, <<408,4,47>>, <<798,4,47>>, <<841,6,51>>,
     <<1364,6,51>>, <<1365,4,47>>, <<1675,6,54>>, <<2626,9,100>>,
     <<2635,9,100>>, <<2638,9,100>>, <<1165,5,100>>, <<1669,5,100>>,
     <<2649,9,100>>, <<2636,5,100>>, <<2650,9,100>>, <<261,5,59>>,
     <<1000,4,51>>, <<1298,4,51>>, <<1350,4,54>>, <<1847,5,78>>,
     <<2348,6,53>>, <<2552,6,82>>, <<1936,14,56>>, <<1817,6,80>>, <<34,4,22>>,
     <<121,5,20>>, <<1054,5,60>>, <<862,7,79>>, <<572,4,79>>, <<2384,5,80>>,
     <<1712,5,69>>, <<1875,5,71>>, <<2311,5,71>>, <<250,4,58>>, <<81,12,98>>,
     <<2562,8,95>>, <<2564,8,100>>, <<71,6,76>>, <<2616,6,99>>,
     <<2651,12,91>>, <<112,3,52>>, <<113,3,44>>, <<148,4,50>>, <<150,3,23>>,
     <<157,3,31>>, <<163,3,51>>, <<173,3,50>>, <<177,3,52>>, <<178,3,45>>,
     <<180,3,45>>, <<224,3,37>> >>
group_20_rules ==
  << <<35,10,49>>, <<200,1,49>>, <<202,16,49>>, <<686,31,49>>, <<858,4,64>>,
     <<1127,4,64>>, <<1068,3,60>>, <<1349,4,63>>, <<1305,4,64>>,
     <<1061,4,60>>, <<851,3,61>>, <<854,3,71>>, <<1062,3,66>>, <<1323,4,68>>,
     <<1361,3,68>>, <<1363,3,69>>, <<1044,4,69>>, <<1133,4,69>>,
     <<1687,6,69>>, <<2310,4,67>>, <<1035,4,69>>, <<185,2,68>>, <<1426,2,61>>,
     <<2536,8,128>>, <<855,4,72>>, <<993,4,67>>, <<1677,3,67>>, <<1678,3,68>>,
     <<760,5,69>>, <<1037,4,62>>, <<852,4,66>>, <<1690,4,66>>, <<1692,4,66>>,
     <<2411,3,61>>, <<1224,4,72>>, <<2380,10,136>>, <<2360,10,136>>,
     <<2381,10,136>>, <<2379,10,136>>, <<2317,5,70>>, <<2282,6,58>>,
     <<245,16,133>>, <<979,3,51>>, <<2506,5,49>>, <<57,10,91>>, <<142,16,53>>,
     <<190,17,45>>, <<1090,2,90>>, <<1301,2,45>>, <<1721,2,61>>,
     <<1722,2,68>>, <<2069,2,68>>, <<1457,5,143>>, <<1720,7,143>>,
     <<2453,8,123>>, <<2452,16,120>>, <<2502,5,51>>, <<1092,2,12>>,
     <<1346,2,5>>, <<2114,10,36>>, <<2116,5,36>>, <<2503,5,46>>,
     <<1351,2,66>>, <<2505,5,47>>, <<1874,5,82>>, <<2238,5,83>>,
     <<2365,5,136>>, <<2366,6,136>>, <<511,14,143>>, <<68,13,142>>,
     <<252,10,143>>, <<2554,12,141>>, <<2622,12,7>>, <<1032,16,117>>,
     <<70,16,139>>, <<2600,5,62>>, <<206,13,90>>, <<212,16,143>>,
     <<213,16,90>>, <<214,16,90>>, <<2296,8,139>>, <<2301,4,87>>,
     <<2326,4,87>>, <<2297,8,138>>, <<124,16,27>>, <<2318,8,91>>,
     <<442,3,84>>, <<210,16,43>>, <<215,16,117>>, <<217,16,117>>,
     <<216,16,90>>, <<998,3,48>>, <<1299,5,104>>, <<2501,15,140>>,
     <<2575,3,85>>, <<221,4,122>>, <<220,4,122>>, <<136,2,92>>, <<796,3,38>>,
     <<1091,2,90>>, <<1222,2,4>>, <<1307,2,46>>, <<1702,4,7>>, <<1868,2,73>>,
     <<2344,2,35>>, <<2556,4,48>>, <<86,10,142>>, <<1786,2,103>>,
     <<531,4,39>>, <<415,3,41>>, <<1733,4,41>>, <<2191,3,41>>, <<965,3,41>>,
     <<475,3,43>>, <<1778,3,42>>, <<628,12,80>>, <<42,3,80>>, <<1774,6,75>>,
     <<1823,4,101>>, <<1982,3,69>>, <<2218,3,19>>, <<2220,3,19>>,
     <<2222,3,19>>, <<209,16,139>>, <<2634,6,129>>, <<1852,7,134>>,
     <<713,3,3>>, <<1964,2,64>> >>
group_21_rules ==
  << <<56,1,34>>, <<102,1,0>>, <<140,20,0>>, <<141,8,0>>, <<169,4,0>>,
     <<668,18,0>>, <<1274,2,0>>, <<2494,2,3>>, <<2204,3,15>>, <<2223,3,13>>,
     <<2507,2,13>>, <<2224,3,14>>, <<2652,6,77>>, <<2653,6,77>>,
     <<2547,5,32>>, <<103,1,32>>, <<1164,1,5>>, <<2557,5,71>>, <<2606,5,63>>,
     <<2607,5,64>>, <<2608,5,61>>, <<1049,1,1>>, <<58,2,61>>, <<2639,3,31>>,
     <<2372,7,28>>, <<2527,3,30>>, <<2358,8,75>>, <<2361,8,75>>,
     <<2251,4,51>>, <<2275,4,45>>, <<569,8,24>>, <<1708,1,24>>, <<1831,1,24>>,
     <<1971,2,35>>, <<516,10,35>>, <<2309,3,54>>, <<552,4,44>>, <<1326,3,51>>,
     <<560,3,53>>, <<109,1,23>>, <<167,2,23>>, <<2640,5,51>>, <<1851,3,50>>,
     <<2669,4,46>>, <<133,16,33>>, <<1978,2,33>>, <<648,16,82>>,
     <<211,16,82>>, <<644,9,82>>, <<843,6,82>>, <<1159,16,82>>, <<1321,1,8>>,
     <<2362,4,56>>, <<857,2,21>>, <<1094,1,2>>, <<72,5,82>>, <<2239,4,70>>,
     <<128,16,72>>, <<2633,4,76>>, <<104,1,57>>, <<105,2,36>>, <<106,1,36>>,
     <<107,1,10>>, <<146,16,69>>, <<219,14,66>>, <<669,16,66>>, <<674,1,58>>,
     <<689,1,26>>, <<1709,4,74>>, <<1383,1,47>>, <<795,1,12>>, <<1079,1,4>>,
     <<1300,1,7>>, <<1322,1,11>>, <<1324,1,19>>, <<2359,2,39>>,
     <<2266,3,52>> >>

group_rules ==
  ByGroup(<<group_0_rules, group_1_rules, group_2_rules, group_3_rules,
    group_4_rules, group_5_rules, group_6_rules, group_7_rules, group_8_rules,
    group_9_rules, group_10_rules, group_11_rules, group_12_rules,
    group_13_rules, group_14_rules, group_15_rules, group_16_rules,
    group_17_rules, group_18_rules, group_19_rules, group_20_rules,
    group_21_rules>>)

\* The fields of a row.
original_id(row) == row[1]
len(row) == row[2]
TopIndex(row) == row[3]
=============================================================================
