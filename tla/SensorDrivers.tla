---------------------------- MODULE SensorDrivers ----------------------------
(***************************************************************************)
(* The sensor drivers, each as the record of what tells one from another   *)
(* for the sensor controller:                                              *)
(*   needs, gives  the measurements read() takes from earlier readings and *)
(*                 those it adds (only types some driver needs are named,  *)
(*                 the others stand as one type per quantity)              *)
(*   i2c           whether the driver talks over the shared bus            *)
(*   refuses       whether read() may call a reading invalid although the  *)
(*                 device answered: out of range, or not ready yet         *)
(* Every begin() succeeds exactly when the device acknowledges its         *)
(* configuration; every read() starts with the `initialized' it left.      *)
(***************************************************************************)

I2CDriver(needs, gives, refuses) ==
    [needs |-> needs, gives |-> gives, i2c |-> TRUE, refuses |-> refuses]

\* Temperature and humidity outside (-30, 80) degrees or (5, 100) % are refused.
SHT4x == I2CDriver({}, {"Temperature", "RelativeHumidity", "DewPoint"}, TRUE)

BME680 == I2CDriver({}, {"Temperature", "RelativeHumidity", "DewPoint", "Pressure",
                         "GasResistance"}, FALSE)

\* measureVocIndex is only called with a temperature and a humidity at hand.
SGP40 == I2CDriver({"Temperature", "RelativeHumidity"}, {"VocIndex"}, TRUE)

BMP3xx == I2CDriver({}, {"Pressure"}, FALSE)

\* Both event flags must be up, or the reading is invalid.
DPS310 == I2CDriver({}, {"Pressure"}, TRUE)

\* A measurement that is not ready yet is invalid; there is no cache of its own.
SCD4x == I2CDriver({}, {"CO2"}, TRUE)

TSL2591 == I2CDriver({}, {"Illuminance"}, TRUE)

VEML7700 == I2CDriver({}, {"Illuminance"}, TRUE)

BH1750 == I2CDriver({}, {"Illuminance"}, TRUE)

PM25 == I2CDriver({}, {"Particles"}, FALSE)

\* Rssi, heap and uptime of the chip itself: begin() and read() cannot fail.
DeviceSensor == [needs |-> {}, gives |-> {"Uptime"}, i2c |-> FALSE, refuses |-> FALSE]
=============================================================================
