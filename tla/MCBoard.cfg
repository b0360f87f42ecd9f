\* The raster, a picture on its way out, the ADSP's trace bench, the SOM buffer
\* and the loader.  The benches and the loader come to an end.
SPECIFICATION Spec
CHECK_DEADLOCK FALSE
CONSTANTS
    R = 16
    UD = 1
    HTOTAL = 1
    VTOTAL = 5
    VEBLNK = 1
    VSBLNK = 4
    DPYINT = 2
    Buffers <- TwoBuffers
    r_heblnk = 1
    r_hsblnk = 3
    r_htotal = 4
    r_vesync = 1
    r_veblnk = 2
    r_vsblnk = 5
    r_vtotal = 6
    PixClocks = 5
    OutClocks = 2
    AW = 3
    Recordings <- Recorded
    Length = 3
    CEN = 4
    HALT = 2
    MaxHalts = 1
    IOWAIT = 2
    GUARD = 30
    MAXMIS = 2
    Size = 2
    Data = {0, 1}
    CpuData = {1}
    Gap = 0
    Program = 8
    Sim = 14
    Jsa = 16
    Zram = 20
    Depth = 2
    Interval = 64
    Drain = 12
    Saves <- SaveFiles
INVARIANTS VerdictRight RightRows InterruptKept ProbesTell ReadRight ShadowTrue PictureWhole ImageLoaded
